---- MODULE Spec2Model ----
(***************************************************************************)
(* text2sql analytics agent: the query / export-start handlers of the API, *)
(* the export worker, and the paginated and streaming executors.           *)
(*                                                                         *)
(* Texts (model output, SQL) are sequences of one-character strings, so    *)
(* that extraction and validation are computed character by character.     *)
(* Nullable columns and optional values are sequences of length <= 1.      *)
(***************************************************************************)
EXTENDS Integers, Sequences, FiniteSets, TLC

(***************************************************************************)
(* Bounds of the model.                                                    *)
(***************************************************************************)
MaxRequests == 2
MaxRows == 3
MaxPage == 1
MaxPageSize == 1

(***************************************************************************)
(* Optional values.                                                        *)
(***************************************************************************)
None == <<>>
Some(v) == <<v>>
IsSome(o) == o # <<>>

Min(a, b) == IF a <= b THEN a ELSE b
Max(a, b) == IF a >= b THEN a ELSE b

(***************************************************************************)
(* Characters.                                                             *)
(***************************************************************************)
LowerCase ==
  <<"a","b","c","d","e","f","g","h","i","j","k","l","m",
    "n","o","p","q","r","s","t","u","v","w","x","y","z">>
UpperCase ==
  <<"A","B","C","D","E","F","G","H","I","J","K","L","M",
    "N","O","P","Q","R","S","T","U","V","W","X","Y","Z">>
Digits == {"0","1","2","3","4","5","6","7","8","9"}
Whitespace == {" ", "\t", "\n", "\r"}

ToLower(c) ==
  IF \E i \in 1..26 : UpperCase[i] = c
  THEN LowerCase[CHOOSE i \in 1..26 : UpperCase[i] = c]
  ELSE c

\* \w of the regular expressions
IsWordChar(c) ==
  \/ \E i \in 1..26 : LowerCase[i] = ToLower(c)
  \/ c \in Digits
  \/ c = "_"

\* the lower-case word w occurs in s at position i, in any letter case (re.I)
MatchAt(s, i, w) ==
  /\ i >= 1
  /\ i + Len(w) - 1 <= Len(s)
  /\ \A k \in 1..Len(w) : ToLower(s[i + k - 1]) = w[k]

\* \b at the place between s[i-1] and s[i]
WordBoundary(s, i) ==
  (i > 1 /\ IsWordChar(s[i - 1])) # (i <= Len(s) /\ IsWordChar(s[i]))

\* str.strip()
Strip(s) ==
  LET keep == {i \in 1..Len(s) : s[i] \notin Whitespace}
  IN IF keep = {} THEN <<>>
     ELSE LET first == CHOOSE i \in keep : \A j \in keep : i <= j
              last == CHOOSE i \in keep : \A j \in keep : i >= j
          IN SubSeq(s, first, last)

(***************************************************************************)
(* shared/security.py                                                      *)
(***************************************************************************)
WriteKeywords ==
  { <<"i","n","s","e","r","t">>, <<"u","p","d","a","t","e">>,
    <<"d","e","l","e","t","e">>, <<"a","l","t","e","r">>,
    <<"d","r","o","p">>, <<"t","r","u","n","c","a","t","e">>,
    <<"m","e","r","g","e">>, <<"c","a","l","l">>, <<"c","o","p","y">>,
    <<"g","r","a","n","t">>, <<"r","e","v","o","k","e">> }

\* WRITE_RE matches at position i
WriteReAt(s, i) ==
  \E w \in WriteKeywords :
    /\ MatchAt(s, i, w)
    /\ WordBoundary(s, i)
    /\ WordBoundary(s, i + Len(w))

\* the pattern without the two \b, for comparison
is_safe_substring(sql) ==
  ~ \E i \in 1..Len(sql) : \E w \in WriteKeywords : MatchAt(sql, i, w)

is_safe(sql) == ~ \E i \in 1..Len(sql) : WriteReAt(sql, i)

OpenTag == <<"<","s","q","l",">">>
CloseTag == <<"<","/","s","q","l",">">>

\* the pattern with a greedy group, <sql>([\s\S]*)</sql>, for comparison: the
\* leftmost opening tag and the last closing tag after it
extract_sql_greedy(text) ==
  LET closes(i) == {j \in (i + Len(OpenTag))..Len(text) : MatchAt(text, j, CloseTag)}
      opens == {i \in 1..Len(text) : MatchAt(text, i, OpenTag) /\ closes(i) # {}}
  IN IF opens = {} THEN Strip(text)
     ELSE LET i == CHOOSE a \in opens : \A b \in opens : a <= b
              j == CHOOSE a \in closes(i) : \A b \in closes(i) : a >= b
          IN Strip(SubSeq(text, i + Len(OpenTag), j - 1))

\* re.search(r"<sql>([\s\S]*?)</sql>", text_, re.I): the leftmost opening tag
\* that has a closing tag after it, and the first closing tag after it
extract_sql(text) ==
  LET closes(i) == {j \in (i + Len(OpenTag))..Len(text) : MatchAt(text, j, CloseTag)}
      opens == {i \in 1..Len(text) : MatchAt(text, i, OpenTag) /\ closes(i) # {}}
  IN IF opens = {} THEN Strip(text)
     ELSE LET i == CHOOSE a \in opens : \A b \in opens : a <= b
              j == CHOOSE a \in closes(i) : \A b \in closes(i) : a <= b
          IN Strip(SubSeq(text, i + Len(OpenTag), j - 1))

SelectWord == <<"s","e","l","e","c","t">>

\* sql.lower().startswith("select")
StartsWithSelect(sql) == MatchAt(sql, 1, SelectWord)

\* a validation that accepts when either test passes, for comparison
PassesValidationEither(sql) == StartsWithSelect(sql) \/ is_safe(sql)
PassesValidation(sql) == StartsWithSelect(sql) /\ is_safe(sql)

(***************************************************************************)
(* Text literals of the model.                                             *)
(***************************************************************************)
\* "<sql>SELECT 1</sql>"
TextTaggedSelect ==
  <<"<","s","q","l",">","S","E","L","E","C","T"," ","1","<","/","s","q","l",">">>
\* "<sql>DELETE FROM c</sql>"
TextTaggedDelete ==
  <<"<","s","q","l",">","D","E","L","E","T","E"," ","F","R","O","M"," ","c",
    "<","/","s","q","l",">">>
\* "select 1; drop t" (no tags: the whole text is taken)
TextSelectThenDrop ==
  <<"s","e","l","e","c","t"," ","1",";"," ","d","r","o","p"," ","t">>
\* " <SQL>\nSelect updated_at </Sql>\n"
TextTaggedUpdatedAt ==
  <<" ","<","S","Q","L",">","\n","S","e","l","e","c","t"," ",
    "u","p","d","a","t","e","d","_","a","t"," ","<","/","S","q","l",">","\n">>

\* what the chat completion may answer (content None is read as "")
ModelOutputs ==
  { <<>>, TextTaggedSelect, TextTaggedDelete, TextSelectThenDrop,
    TextTaggedUpdatedAt }

\* "SELECT 1", what extract_sql gives for TextTaggedSelect
SqlSelect1 == <<"S","E","L","E","C","T"," ","1">>

\* texts put together from at most MaxPieces pieces: tags in two letter
\* cases, white space, a letter
MaxPieces == 4
Pieces ==
  { OpenTag, <<"<","s","Q","l",">">>, CloseTag, <<"<","/","S","Q","L",">">>,
    <<" ">>, <<"x">> }
RECURSIVE TextsOf(_)
TextsOf(n) ==
  IF n = 0 THEN {<<>>}
  ELSE TextsOf(n - 1) \cup {t \o p : t \in TextsOf(n - 1), p \in Pieces}
Texts == TextsOf(MaxPieces)

\* SELECT statements continued by at most MaxSqlPieces pieces: keywords in
\* two letter cases, the rest of an identifier, separators
MaxSqlPieces == 3
SqlPieces ==
  { <<"u","p","d","a","t","e">>, <<"D","r","O","p">>, <<"d","_","a","t">>,
    <<"_">>, <<" ">>, <<"'">>, <<";">>, <<"x">> }
RECURSIVE SqlTextsOf(_)
SqlTextsOf(n) ==
  IF n = 0 THEN {<<"s","e","l","e","c","t"," ">>}
  ELSE SqlTextsOf(n - 1) \cup {t \o p : t \in SqlTextsOf(n - 1), p \in SqlPieces}
SqlTexts == SqlTextsOf(MaxSqlPieces)

\* extract_sql and the validation over these texts, computed once
AllOutputs == ModelOutputs \cup Texts \cup SqlTexts
ExtractedSql == [t \in AllOutputs |-> extract_sql(t)]
Accepted == {t \in AllOutputs : PassesValidation(ExtractedSql[t])}

(***************************************************************************)
(* State.                                                                  *)
(***************************************************************************)
VARIABLES
  client,      \* app/api.py client: TRUE when the model client is configured
  reqs,        \* the requests to /query and /export/start, each with its position
  nextJob,     \* the job ids uuid4 has given out so far
  queueUrl,    \* app/api.py _SQS_QUEUE_URL: the cached queue URL, or None
  store,       \* table export_jobs: job_id -> record
  queue,       \* the messages sent to the export queue
  db,          \* the rows the generated SQL selects, in the database's order
  clock,       \* int(time.time())
  workers,     \* the invocations of lambda_handler
  disk,        \* the temporary directory each invocation sees: job_id -> file
  s3,          \* the export bucket: job_id of the key -> object
  stream       \* one call of stream_query_results and its consumer

apiVars == <<client, reqs, nextJob, queueUrl>>
workerVars == <<workers, disk, s3>>
vars == <<client, reqs, nextJob, queueUrl, store, queue, db, clock,
          workers, disk, s3, stream>>

(***************************************************************************)
(* app/api.py: POST /query and POST /export/start.                         *)
(* A request advances from one call of a collaborator to the next; a call  *)
(* that raises ends the request with the exception leaving the handler.    *)
(***************************************************************************)
Requests == 1..MaxRequests
PageValues == 0..MaxPage
PageSizeValues == 0..MaxPageSize

EXPORT_PREFIX == "exports"
S3Key(job_id) == [prefix |-> EXPORT_PREFIX, job_id |-> job_id, ext |-> "csv"]

IdleRequest ==
  [kind |-> "none", pc |-> "idle", page |-> 1, page_size |-> 1,
   content |-> None, sql |-> None, conn |-> "none", cur |-> "none",
   job_id |-> None, log |-> <<>>, resp |-> None]

\* raise HTTPException(status_code, detail)
HttpError(status, detail) ==
  [status |-> status, detail |-> detail, escaped |-> FALSE, body |-> None]
\* an exception that leaves the handler: the framework answers 500
Unhandled ==
  [status |-> 500, detail |-> "Internal Server Error", escaped |-> TRUE, body |-> None]
Ok(body) == [status |-> 200, detail |-> "", escaped |-> FALSE, body |-> Some(body)]

\* a handler that tries a failing call a second time before it answers, for
\* comparison
RespondAfterRetry(r, resp, calls) ==
  reqs' = [reqs EXCEPT ![r].pc = "done", ![r].resp = Some(resp),
                       ![r].log = reqs[r].log
                                    \o (IF resp.status = 200 THEN calls
                                        ELSE calls \o calls)]

Respond(r, resp, calls) ==
  reqs' = [reqs EXCEPT ![r].pc = "done", ![r].resp = Some(resp),
                       ![r].log = reqs[r].log \o calls]

Advance(r, pc, calls) ==
  reqs' = [reqs EXCEPT ![r].pc = pc, ![r].log = reqs[r].log \o calls]

\* api.py:158-159 and 202-203: the request arrives, the client is not configured
\* (requests are numbered in the order they arrive)
ReceiveUnconfigured(r) ==
  /\ reqs[r].pc = "idle"
  /\ \A q \in 1..(r - 1) : reqs[q].pc # "idle"
  /\ ~client
  /\ \E kind \in {"query", "export"}, page \in PageValues, page_size \in PageSizeValues :
       reqs' = [reqs EXCEPT ![r] =
                  [IdleRequest EXCEPT !.kind = kind,
                     !.page = IF kind = "query" THEN page ELSE 1,
                     !.page_size = IF kind = "query" THEN page_size ELSE 1,
                     !.pc = "done",
                     !.resp = Some(HttpError(500, "LLM not configured"))]]
  /\ clock' = clock + 1
  /\ UNCHANGED <<client, nextJob, queueUrl, store, queue, db, workerVars, stream>>

\* the request arrives, the client is configured: on to get_schema_text
Receive(r) ==
  /\ reqs[r].pc = "idle"
  /\ \A q \in 1..(r - 1) : reqs[q].pc # "idle"
  /\ client
  /\ \E kind \in {"query", "export"}, page \in PageValues, page_size \in PageSizeValues :
       reqs' = [reqs EXCEPT ![r] =
                  [IdleRequest EXCEPT !.kind = kind,
                     !.page = IF kind = "query" THEN page ELSE 1,
                     !.page_size = IF kind = "query" THEN page_size ELSE 1,
                     !.pc = "schema"]]
  /\ clock' = clock + 1
  /\ UNCHANGED <<client, nextJob, queueUrl, store, queue, db, workerVars, stream>>

\* api.py:161-163 and 205-207: get_schema_text, then enrich_query and build_prompt
GetSchema(r) ==
  /\ reqs[r].pc = "schema"
  /\ \/ Advance(r, "llm", <<"get_schema_text", "enrich_query", "build_prompt">>)
     \/ Respond(r, Unhandled, <<"get_schema_text">>)
  /\ UNCHANGED <<client, nextJob, queueUrl, store, queue, db, clock, workerVars, stream>>

\* a rejection whose detail names the test that failed, for comparison
RejectionNamingTest(sql) ==
  HttpError(400, IF StartsWithSelect(sql) THEN "Unsafe SQL generated"
                 ELSE "Invalid SQL generated")

\* api.py:175 and 218: raise HTTPException(status_code=400, detail=...)
Rejection(sql) == HttpError(400, "Unsafe or invalid SQL generated")

\* api.py:165-175 and 208-221: the completion call, extract_sql, the validation;
\* export_start goes on to uuid4 and the s3 key
GenerateFrom(r, outputs) ==
  /\ reqs[r].pc = "llm"
  /\ \/ /\ Respond(r, Unhandled, <<"create">>)
        /\ UNCHANGED nextJob
     \/ \E text \in outputs :
          LET sql == ExtractedSql[text]
              calls == <<"create", "extract_sql", "is_safe">>
          IN IF text \notin Accepted
             THEN /\ reqs' = [reqs EXCEPT ![r].pc = "done", ![r].content = Some(text), ![r].sql = Some(sql),
                                ![r].log = reqs[r].log \o calls,
                                ![r].resp = Some(Rejection(sql))]
                  /\ UNCHANGED nextJob
             ELSE IF reqs[r].kind = "query"
             THEN /\ reqs' = [reqs EXCEPT ![r].pc = "page_query", ![r].content = Some(text), ![r].sql = Some(sql),
                                ![r].log = reqs[r].log \o calls]
                  /\ UNCHANGED nextJob
             ELSE /\ reqs' = [reqs EXCEPT ![r].pc = "insert_job", ![r].content = Some(text), ![r].sql = Some(sql),
                                ![r].job_id = Some(nextJob + 1),
                                ![r].log = reqs[r].log \o calls \o <<"uuid4">>]
                  /\ nextJob' = nextJob + 1
  /\ UNCHANGED <<client, queueUrl, store, queue, db, clock, workerVars, stream>>

\* api.py:165-175 and 208-221, for the outputs the model is taken to give
Generate(r) == GenerateFrom(r, ModelOutputs)

(***************************************************************************)
(* The database: the result of the validated SELECT is a table of two      *)
(* columns, an integer id and a nullable date; psycopg2 hands the cells to *)
(* Python as int, None and datetime.date.                                  *)
(***************************************************************************)
IntCell(n) == [t |-> "int", n |-> n, s |-> ""]
NullCell == [t |-> "none", n |-> 0, s |-> ""]
DateCell(iso) == [t |-> "date", n |-> 0, s |-> iso]

\* [d[0] for d in cur.description]
Columns == <<"id", "day">>

\* a result of n rows without a date
Table(n) == [i \in 1..n |-> <<IntCell(i), NullCell>>]

(***************************************************************************)
(* shared/db.py run_page, as query calls it, and the response of query.    *)
(***************************************************************************)
\* an offset that counts pages from 0, for comparison
PageOffsetFromZero(page, page_size) == page * page_size

\* offset = (page - 1) * page_size
PageOffset(page, page_size) == (page - 1) * page_size

\* f"SELECT * FROM ({sql}) AS sub LIMIT {page_size} OFFSET {offset}"
PageQuery(page, page_size) ==
  [limit |-> page_size, offset |-> PageOffset(page, page_size)]

\* the rows the database answers a LIMIT / OFFSET query over rows with
Select(rows, query) ==
  SubSeq(rows, query.offset + 1, Min(Len(rows), query.offset + query.limit))

\* the database refuses a negative LIMIT or OFFSET
PageQueryInvalid(page, page_size) ==
  page_size < 0 \/ PageOffset(page, page_size) < 0

\* SELECT * FROM (sql) AS sub LIMIT page_size OFFSET offset
PageRows(rows, page, page_size) == Select(rows, PageQuery(page, page_size))

\* one page more than the full pages, for comparison
TotalPagesExtra(total, page_size) == total \div page_size + 1

\* (total + page_size - 1) // page_size
TotalPages(total, page_size) == (total + page_size - 1) \div page_size

Pagination(page, page_size, total) ==
  [page |-> page, page_size |-> page_size, total_rows |-> total,
   total_pages |-> TotalPages(total, page_size)]

\* db.py:59-69: what run_page returns when no call raises
run_page(rows, page, page_size) ==
  [cols |-> Columns, rows |-> PageRows(rows, page, page_size), total |-> Len(rows)]

\* db.py:59-65: get_conn, cursor, execute(paginated), fetchall, description.
\* get_conn may raise, with nothing opened; execute or fetchall may raise,
\* with the connection and the cursor open: run_page has no finally clause
RunPageQuery(r) ==
  /\ reqs[r].pc = "page_query"
  /\ \/ /\ ~PageQueryInvalid(reqs[r].page, reqs[r].page_size)
        /\ reqs' = [reqs EXCEPT ![r].pc = "count_query",
                                ![r].log = reqs[r].log \o <<"page_query">>,
                                ![r].conn = "open", ![r].cur = "open"]
     \/ reqs' = [reqs EXCEPT ![r].pc = "done", ![r].resp = Some(Unhandled),
                             ![r].log = reqs[r].log \o <<"page_query">>]
     \/ reqs' = [reqs EXCEPT ![r].pc = "done", ![r].resp = Some(Unhandled),
                             ![r].log = reqs[r].log \o <<"page_query">>,
                             ![r].conn = "open", ![r].cur = "open"]
  /\ UNCHANGED <<client, nextJob, queueUrl, store, queue, db, clock, workerVars, stream>>

\* db.py:66-69 run_count, cur.close(), conn.close() and the return, then
\* api.py:178-188: the response. When run_count raises, the two closes are
\* not reached; page_size = 0 raises ZeroDivisionError at total_pages, after
\* run_page has returned
RunCountAndRespond(r) ==
  /\ reqs[r].pc = "count_query"
  /\ \/ reqs' = [reqs EXCEPT ![r].pc = "done", ![r].resp = Some(Unhandled),
                             ![r].log = reqs[r].log \o <<"count_query">>]
     \/ /\ reqs[r].page_size = 0
        /\ reqs' = [reqs EXCEPT ![r].pc = "done", ![r].resp = Some(Unhandled),
                                ![r].log = reqs[r].log \o <<"count_query">>,
                                ![r].conn = "closed", ![r].cur = "closed"]
     \/ /\ reqs[r].page_size # 0
        /\ reqs' = [reqs EXCEPT
                      ![r].pc = "done",
                      ![r].resp =
                        Some(LET res == run_page(db, reqs[r].page, reqs[r].page_size)
                             IN  Ok([sql |-> reqs[r].sql[1],
                                     columns |-> res.cols,
                                     rows |-> res.rows,
                                     pagination |-> Pagination(reqs[r].page,
                                                               reqs[r].page_size,
                                                               res.total)])),
                      ![r].log = reqs[r].log \o <<"count_query">>,
                      ![r].conn = "closed", ![r].cur = "closed"]
  /\ UNCHANGED <<client, nextJob, queueUrl, store, queue, db, clock, workerVars, stream>>

(***************************************************************************)
(* app/api.py export_start after the validation: insert_job, _queue_url,   *)
(* send_message.                                                           *)
(***************************************************************************)
NewJob(s3_key, now) ==
  [status |-> "PENDING", created_at |-> now, s3_key |-> s3_key,
   started_at |-> None, finished_at |-> None, row_count |-> None, error |-> None]

\* a message whose key lacks the prefix, for comparison
MessageBareKey(job_id, sql) ==
  [job_id |-> job_id, sql |-> sql,
   s3_key |-> [prefix |-> "", job_id |-> job_id, ext |-> "csv"]]

\* api.py:228-232: the attributes of the message
Message(job_id, sql) == [job_id |-> job_id, sql |-> sql, s3_key |-> S3Key(job_id)]

\* insert_job without its commit, for comparison
InsertJobNoCommit(r) ==
  /\ reqs[r].pc = "insert_job"
  /\ \/ Advance(r, "queue_url", <<"insert_job">>)
     \/ Respond(r, Unhandled, <<"insert_job">>)
  /\ UNCHANGED <<client, nextJob, queueUrl, store, queue, db, clock, workerVars, stream>>

\* api.py:38-50 insert_job: the record is committed, or the call raises before it
InsertJob(r) ==
  /\ reqs[r].pc = "insert_job"
  /\ \/ /\ Advance(r, "queue_url", <<"insert_job">>)
        /\ store' = store @@ (reqs[r].job_id[1] :> NewJob(S3Key(reqs[r].job_id[1]), clock))
     \/ /\ Respond(r, Unhandled, <<"insert_job">>)
        /\ UNCHANGED store
  /\ UNCHANGED <<client, nextJob, queueUrl, queue, db, clock, workerVars, stream>>

\* api.py:96-97 _queue_url: the cached URL
QueueUrlCached(r) ==
  /\ reqs[r].pc = "queue_url"
  /\ IsSome(queueUrl)
  /\ Advance(r, "send", <<"get_sqs", "_queue_url">>)
  /\ UNCHANGED <<client, nextJob, queueUrl, store, queue, db, clock, workerVars, stream>>

\* api.py:98-101 _queue_url: a second get_sqs, get_queue_url, cached when it
\* answers
QueueUrlLookup(r) ==
  /\ reqs[r].pc = "queue_url"
  /\ ~IsSome(queueUrl)
  /\ \/ /\ Advance(r, "send", <<"get_sqs", "_queue_url", "get_sqs", "get_queue_url">>)
        /\ queueUrl' = Some("QueueUrl")
     \/ /\ Respond(r, Unhandled, <<"get_sqs", "_queue_url", "get_sqs", "get_queue_url">>)
        /\ UNCHANGED queueUrl
  /\ UNCHANGED <<client, nextJob, store, queue, db, clock, workerVars, stream>>

\* api.py:225-234 send_message and the answer {job_id, status: PENDING}
SendMessage(r) ==
  /\ reqs[r].pc = "send"
  /\ \/ /\ Respond(r, Ok([job_id |-> reqs[r].job_id[1], status |-> "PENDING"]),
                   <<"send_message">>)
        /\ queue' = queue \cup {Message(reqs[r].job_id[1], reqs[r].sql[1])}
     \/ /\ Respond(r, Unhandled, <<"send_message">>)
        /\ UNCHANGED queue
  /\ UNCHANGED <<client, nextJob, queueUrl, store, db, clock, workerVars, stream>>

(***************************************************************************)
(* backend/lambda/export_worker.py: update_job_status and lambda_handler.  *)
(* An invocation advances from one access to the job store, the database,  *)
(* the local disk or the bucket to the next; a call that raises takes it   *)
(* to the except clause.                                                   *)
(***************************************************************************)
NumJobs == 2
MaxDeliveries == 2
\* BATCH_SIZE of the worker's environment
BATCH_SIZE == 2
\* traceback.format_exc()[:1500]
TraceLimit == 1500

\* the invocations of lambda_handler, in the order the queue starts them
Workers == 1..MaxDeliveries
JobIds == 1..NumJobs

\* UPDATE export_jobs SET status = %s [, column = %s for each argument that is
\* not None] WHERE job_id = %s
update_job_status(st, job_id, status, started_at, finished_at, row_count, error) ==
  IF job_id \notin DOMAIN st THEN st
  ELSE [st EXCEPT ![job_id] =
          [@ EXCEPT !.status = status,
                    !.started_at = IF IsSome(started_at) THEN started_at ELSE @,
                    !.finished_at = IF IsSome(finished_at) THEN finished_at ELSE @,
                    !.row_count = IF IsSome(row_count) THEN row_count ELSE @,
                    !.error = IF IsSome(error) THEN error ELSE @]]

\* the lengths str(e) may have: a short message, and one that quotes a long
\* statement
MessageLengths == {12, 5000}

\* an exception raised by the call `at`, with a message of n characters
RaisedWith(at, n) ==
  [cls |-> "Exception", at |-> at, msg_len |-> n, trace_len |-> 2000]
Raised(at) == RaisedWith(at, 12)

\* f"{e.__class__.__name__}: {str(e)}\n{traceback.format_exc()[:1500]}"
ErrorText(e) ==
  [cls |-> e.cls, msg_len |-> e.msg_len, trace_len |-> Min(e.trace_len, TraceLimit)]
ErrorTextLen(t) == Len(t.cls) + 2 + t.msg_len + 1 + t.trace_len

\* a loop that counts a full batch for every fetch, for comparison
RECURSIVE ExportLoopFullBatches(_, _, _)
ExportLoopFullBatches(remaining, row_count, written) ==
  LET rows == Min(BATCH_SIZE, remaining)
  IN IF rows = 0 THEN [row_count |-> row_count, written |-> written]
     ELSE ExportLoopFullBatches(remaining - rows, row_count + BATCH_SIZE,
                                written + rows)

\* the while loop of lambda_handler over a cursor of n rows: what it counts
\* and what it writes
RECURSIVE ExportLoop(_, _, _)
ExportLoop(remaining, row_count, written) ==
  LET rows == Min(BATCH_SIZE, remaining)
  IN IF rows = 0 THEN [row_count |-> row_count, written |-> written]
     ELSE ExportLoop(remaining - rows, row_count + rows, written + rows)

\* the number of fetchmany calls that return rows
FullFetches(n) == (n + BATCH_SIZE - 1) \div BATCH_SIZE

IdleWorker ==
  [pc |-> "idle", records |-> <<>>, idx |-> 0, row_count |-> 0, exc |-> None,
   wrote_failed |-> FALSE, executed |-> <<>>]

Record(w) == workers[w].records[workers[w].idx]

\* the sequences of at most n messages of S, each message at most once
RECURSIVE DistinctSeqs(_, _)
DistinctSeqs(S, n) ==
  IF n = 0 THEN {<<>>}
  ELSE LET shorter == DistinctSeqs(S, n - 1)
       IN shorter \cup
          UNION {{Append(t, m) : m \in S \ {t[i] : i \in 1..Len(t)}} : t \in shorter}

\* the events the queue may hand to one invocation: event["Records"]
Events == DistinctSeqs(queue, Cardinality(queue)) \ {<<>>}

\* the queue invokes lambda_handler; a message stays in the queue and may be
\* delivered again, also while an earlier invocation still runs
Deliver(w) ==
  /\ workers[w].pc = "idle"
  /\ \A v \in 1..(w - 1) : workers[v].pc # "idle"
  /\ \E recs \in Events :
       workers' = [workers EXCEPT ![w] =
                     [IdleWorker EXCEPT !.pc = "mark_in_progress",
                                        !.records = recs, !.idx = 1]]
  /\ clock' = clock + 1
  /\ UNCHANGED <<apiVars, store, queue, db, disk, s3, stream>>

Fail(w, at) ==
  \E n \in MessageLengths :
    workers' = [workers EXCEPT ![w].pc = "mark_failed",
                               ![w].exc = Some(RaisedWith(at, n))]

\* export_worker.py:64: update_job_status(job_id, "IN_PROGRESS", started_at=...)
MarkInProgress(w) ==
  /\ workers[w].pc = "mark_in_progress"
  /\ \/ /\ store' = update_job_status(store, Record(w).job_id, "IN_PROGRESS",
                                      Some(clock), None, None, None)
        /\ workers' = [workers EXCEPT ![w].pc = "export", ![w].row_count = 0]
     \/ /\ Fail(w, "mark_in_progress")
        /\ UNCHANGED store
  /\ UNCHANGED <<apiVars, queue, db, clock, disk, s3, stream>>

\* the statement with a terminating semicolon added, for comparison
SqlOfTerminated(rec) == rec.sql \o <<";">>

\* export_worker.py:61: sql = attrs["sql"]["stringValue"]
SqlOf(rec) == rec.sql

\* the statements invocation w has passed to cur.execute, with one more
Executed(w) == Append(workers[w].executed, SqlOf(Record(w)))

\* export_worker.py:66-85: the cursor over the job's SQL and the file written
\* from it. The call may raise before the file is opened, or after it with
\* some of the batches written, or it ends with every row written.
Export(w) ==
  /\ workers[w].pc = "export"
  /\ LET n == Len(db)
     IN
       \/ /\ \E m \in MessageLengths :
               workers' = [workers EXCEPT ![w].pc = "mark_failed",
                                          ![w].exc = Some(RaisedWith("execute", m)),
                                          ![w].executed = Executed(w)]
          /\ UNCHANGED disk
       \/ \E b \in 0..FullFetches(n) :
            /\ \E m \in MessageLengths :
                 workers' = [workers EXCEPT ![w].pc = "mark_failed",
                                            ![w].exc = Some(RaisedWith("fetchmany", m)),
                                            ![w].executed = Executed(w)]
            /\ disk' = [disk EXCEPT ![w][Record(w).job_id] =
                          Some([rows |-> Min(b * BATCH_SIZE, n)])]
       \/ LET loop == ExportLoop(n, 0, 0)
          IN /\ workers' = [workers EXCEPT ![w].pc = "upload",
                                           ![w].row_count = loop.row_count,
                                           ![w].executed = Executed(w)]
             /\ disk' = [disk EXCEPT ![w][Record(w).job_id] =
                           Some([rows |-> loop.written])]
  /\ UNCHANGED <<apiVars, store, queue, db, clock, s3, stream>>

\* a worker that writes SUCCESS where the upload should be, for comparison
MarkSuccessInPlaceOfUpload(w) ==
  /\ workers[w].pc = "upload"
  /\ store' = update_job_status(store, Record(w).job_id, "SUCCESS",
                                None, Some(clock), Some(workers[w].row_count), None)
  /\ workers' = [workers EXCEPT ![w].pc = "remove"]
  /\ UNCHANGED <<apiVars, queue, db, clock, disk, s3, stream>>

\* export_worker.py:87: s3.upload_file(tmp, EXPORT_BUCKET, s3_key)
Upload(w) ==
  /\ workers[w].pc = "upload"
  /\ \/ /\ s3' = [s3 EXCEPT ![Record(w).s3_key.job_id] = disk[w][Record(w).job_id]]
        /\ workers' = [workers EXCEPT ![w].pc = "remove"]
     \/ /\ Fail(w, "upload_file")
        /\ UNCHANGED s3
  /\ UNCHANGED <<apiVars, store, queue, db, clock, disk, stream>>

\* export_worker.py:88: os.remove(tmp)
Remove(w) ==
  /\ workers[w].pc = "remove"
  /\ \/ /\ disk' = [disk EXCEPT ![w][Record(w).job_id] = None]
        /\ workers' = [workers EXCEPT ![w].pc = "mark_success"]
     \/ /\ Fail(w, "remove")
        /\ UNCHANGED disk
  /\ UNCHANGED <<apiVars, store, queue, db, clock, s3, stream>>

\* a worker that returns without the SUCCESS write, for comparison
ReturnWithoutSuccess(w) ==
  /\ workers[w].pc = "mark_success"
  /\ workers' = [workers EXCEPT ![w].pc = "returned"]
  /\ UNCHANGED <<apiVars, store, queue, db, clock, disk, s3, stream>>

\* export_worker.py:90-92: update_job_status(job_id, "SUCCESS", finished_at=...,
\* row_count=row_count), then the next record of the event or the return
MarkSuccess(w) ==
  /\ workers[w].pc = "mark_success"
  /\ \/ /\ store' = update_job_status(store, Record(w).job_id, "SUCCESS",
                                      None, Some(clock), Some(workers[w].row_count), None)
        /\ workers' = [workers EXCEPT
                         ![w].pc = IF workers[w].idx < Len(workers[w].records)
                                   THEN "mark_in_progress" ELSE "returned",
                         ![w].idx = IF workers[w].idx < Len(workers[w].records)
                                    THEN @ + 1 ELSE @]
     \/ /\ Fail(w, "mark_success")
        /\ UNCHANGED store
  /\ UNCHANGED <<apiVars, queue, db, clock, disk, s3, stream>>

\* an except clause that records the failure and goes on with the next
\* record of the event, for comparison
MarkFailedAndContinue(w) ==
  /\ workers[w].pc = "mark_failed"
  /\ store' = update_job_status(store, Record(w).job_id, "FAILED",
                                None, Some(clock), None,
                                Some(ErrorText(workers[w].exc[1])))
  /\ workers' = [workers EXCEPT
                   ![w].pc = IF workers[w].idx < Len(workers[w].records)
                             THEN "mark_in_progress" ELSE "raised",
                   ![w].idx = IF workers[w].idx < Len(workers[w].records)
                              THEN @ + 1 ELSE @,
                   ![w].wrote_failed = TRUE]
  /\ UNCHANGED <<apiVars, queue, db, clock, disk, s3, stream>>

\* an except clause that records the failure and lets the handler return
\* normally, for comparison
MarkFailedSwallowed(w) ==
  /\ workers[w].pc = "mark_failed"
  /\ store' = update_job_status(store, Record(w).job_id, "FAILED",
                                None, Some(clock), None,
                                Some(ErrorText(workers[w].exc[1])))
  /\ workers' = [workers EXCEPT ![w].pc = "returned", ![w].wrote_failed = TRUE]
  /\ UNCHANGED <<apiVars, queue, db, clock, disk, s3, stream>>

\* export_worker.py:93-100: the except clause: update_job_status(job_id,
\* "FAILED", finished_at=..., error=...), then raise; when the update raises,
\* its exception leaves the handler instead
MarkFailed(w) ==
  /\ workers[w].pc = "mark_failed"
  /\ \/ /\ store' = update_job_status(store, Record(w).job_id, "FAILED",
                                      None, Some(clock), None,
                                      Some(ErrorText(workers[w].exc[1])))
        /\ workers' = [workers EXCEPT ![w].pc = "raised", ![w].wrote_failed = TRUE]
     \/ /\ workers' = [workers EXCEPT ![w].pc = "raised",
                                      ![w].exc = Some(Raised("mark_failed"))]
        /\ UNCHANGED store
  /\ UNCHANGED <<apiVars, queue, db, clock, disk, s3, stream>>

(***************************************************************************)
(* app/api.py: GET /export/status/{job_id}.                                *)
(***************************************************************************)
\* api.py:53-72: the row get_job reads, None when there is none
get_job(st, job_id) ==
  IF job_id \in DOMAIN st
  THEN Some([job_id |-> job_id, status |-> st[job_id].status,
             s3_key |-> st[job_id].s3_key, row_count |-> st[job_id].row_count,
             error |-> st[job_id].error])
  ELSE None

\* api.py:255-259: generate_presigned_url, computed locally from the key
PresignedUrl(s3_key) == [key |-> s3_key, expires_in |-> 3600]

\* item["error"] or "unknown"
UnknownError == [cls |-> "unknown", msg_len |-> 0, trace_len |-> 0]

\* a body that carries every column the record has a value for, for comparison
StatusBodyAllColumns(item) ==
  [job_id |-> item.job_id, status |-> item.status,
   download_url |-> IF item.status = "SUCCESS" THEN Some(PresignedUrl(item.s3_key))
                    ELSE None,
   row_count |-> item.row_count,
   error |-> item.error]

\* api.py:252-272: the body of the answer; a key the answer does not carry is None
StatusBody(item) ==
  IF item.status = "SUCCESS"
  THEN [job_id |-> item.job_id, status |-> item.status,
        download_url |-> Some(PresignedUrl(item.s3_key)),
        row_count |-> IF IsSome(item.row_count) THEN item.row_count ELSE Some(0),
        error |-> None]
  ELSE IF item.status = "FAILED"
  THEN [job_id |-> item.job_id, status |-> item.status,
        download_url |-> None, row_count |-> None,
        error |-> IF IsSome(item.error) THEN item.error ELSE Some(UnknownError)]
  ELSE [job_id |-> item.job_id, status |-> item.status,
        download_url |-> None, row_count |-> None, error |-> None]

\* api.py:237-272: export_status; get_job or the signing may raise, and the
\* exception leaves the handler
ExportStatus(r, job_id) ==
  /\ reqs[r].pc = "idle"
  /\ LET item == get_job(store, job_id)
         request == [IdleRequest EXCEPT !.kind = "status", !.pc = "done",
                                        !.job_id = Some(job_id)]
     IN  \/ reqs' = [reqs EXCEPT ![r] =
                       [request EXCEPT !.log = <<"get_job">>,
                                       !.resp = Some(Unhandled)]]
         \/ /\ item = None
            /\ reqs' = [reqs EXCEPT ![r] =
                          [request EXCEPT !.log = <<"get_job">>,
                                          !.resp = Some(HttpError(404, "job not found"))]]
         \/ /\ item # None
            /\ reqs' = [reqs EXCEPT ![r] =
                          [request EXCEPT
                             !.log = IF item[1].status = "SUCCESS"
                                     THEN <<"get_job", "generate_presigned_url">>
                                     ELSE <<"get_job">>,
                             !.resp = Some(Ok(StatusBody(item[1])))]]
         \/ /\ item # None /\ item[1].status = "SUCCESS"
            /\ reqs' = [reqs EXCEPT ![r] =
                          [request EXCEPT
                             !.log = <<"get_job", "generate_presigned_url">>,
                             !.resp = Some(Unhandled)]]
  /\ UNCHANGED <<client, nextJob, queueUrl, store, queue, db, clock, workerVars, stream>>

(***************************************************************************)
(* JSON text, as a sequence of tokens (white space between tokens left     *)
(* out), and JSON values.                                                  *)
(***************************************************************************)
Tok(k) == [k |-> k, s |-> "", n |-> 0]
TStr(s) == [k |-> "str", s |-> s, n |-> 0]
TNum(n) == [k |-> "num", s |-> "", n |-> n]

JNull == [k |-> "null", s |-> "", n |-> 0, keys |-> <<>>, items |-> <<>>]
JStr(s) == [k |-> "str", s |-> s, n |-> 0, keys |-> <<>>, items |-> <<>>]
JNum(n) == [k |-> "num", s |-> "", n |-> n, keys |-> <<>>, items |-> <<>>]
JArr(items) == [k |-> "arr", s |-> "", n |-> 0, keys |-> <<>>, items |-> items]
JObj(keys, items) == [k |-> "obj", s |-> "", n |-> 0, keys |-> keys, items |-> items]

\* str.join: the texts of parts with sep between consecutive ones
RECURSIVE Join(_, _)
Join(parts, sep) ==
  IF parts = <<>> THEN <<>>
  ELSE IF Len(parts) = 1 THEN parts[1]
  ELSE parts[1] \o sep \o Join(Tail(parts), sep)

\* json.dumps of a str, an int, None; of a datetime.date it raises TypeError
JsonSerializable(cell) == cell.t \in {"int", "none"}
DumpsStr(s) == <<TStr(s)>>
DumpsInt(n) == <<TNum(n)>>
DumpsCell(cell) ==
  IF cell.t = "int" THEN DumpsInt(cell.n) ELSE <<Tok("null")>>
\* json.dumps of a list of str, and of list(row)
DumpsStrList(l) ==
  <<Tok("[")>> \o Join([i \in 1..Len(l) |-> DumpsStr(l[i])], <<Tok(",")>>)
               \o <<Tok("]")>>
DumpsRow(row) ==
  <<Tok("[")>> \o Join([i \in 1..Len(row) |-> DumpsCell(row[i])], <<Tok(",")>>)
               \o <<Tok("]")>>
RowSerializable(row) == \A i \in 1..Len(row) : JsonSerializable(row[i])

\* "".join(result_chunks)
RECURSIVE Concat(_)
Concat(chunks) ==
  IF chunks = <<>> THEN <<>> ELSE Head(chunks) \o Concat(Tail(chunks))

\* json.loads: the value a text holds, if the whole text is one value
ParseFail == [ok |-> FALSE, pos |-> 0, val |-> JNull]
Parsed(pos, val) == [ok |-> TRUE, pos |-> pos, val |-> val]

RECURSIVE ParseValue(_, _), ParseElements(_, _, _), ParseMembers(_, _, _, _)
ParseValue(t, i) ==
  IF i > Len(t) THEN ParseFail
  ELSE CASE t[i].k = "str" -> Parsed(i + 1, JStr(t[i].s))
         [] t[i].k = "num" -> Parsed(i + 1, JNum(t[i].n))
         [] t[i].k = "null" -> Parsed(i + 1, JNull)
         [] t[i].k = "[" ->
              IF i + 1 <= Len(t) /\ t[i + 1].k = "]"
              THEN Parsed(i + 2, JArr(<<>>))
              ELSE ParseElements(t, i + 1, <<>>)
         [] t[i].k = "{" ->
              IF i + 1 <= Len(t) /\ t[i + 1].k = "}"
              THEN Parsed(i + 2, JObj(<<>>, <<>>))
              ELSE ParseMembers(t, i + 1, <<>>, <<>>)
         [] OTHER -> ParseFail

ParseElements(t, i, acc) ==
  LET v == ParseValue(t, i)
  IN  IF ~v.ok \/ v.pos > Len(t) THEN ParseFail
      ELSE IF t[v.pos].k = ","
           THEN ParseElements(t, v.pos + 1, Append(acc, v.val))
      ELSE IF t[v.pos].k = "]"
           THEN Parsed(v.pos + 1, JArr(Append(acc, v.val)))
      ELSE ParseFail

ParseMembers(t, i, keys, acc) ==
  IF i + 1 > Len(t) \/ t[i].k # "str" \/ t[i + 1].k # ":" THEN ParseFail
  ELSE LET v == ParseValue(t, i + 2)
       IN  IF ~v.ok \/ v.pos > Len(t) THEN ParseFail
           ELSE IF t[v.pos].k = ","
                THEN ParseMembers(t, v.pos + 1, Append(keys, t[i].s),
                                  Append(acc, v.val))
           ELSE IF t[v.pos].k = "}"
                THEN Parsed(v.pos + 1, JObj(Append(keys, t[i].s),
                                            Append(acc, v.val)))
           ELSE ParseFail

Loads(t) ==
  LET v == ParseValue(t, 1)
  IN  IF v.ok /\ v.pos = Len(t) + 1 THEN v ELSE ParseFail

\* data[key] of a parsed object
Member(obj, key) ==
  LET i == CHOOSE i \in 1..Len(obj.keys) : obj.keys[i] = key
  IN  obj.items[i]
HasKey(obj, key) == \E i \in 1..Len(obj.keys) : obj.keys[i] = key

(***************************************************************************)
(* shared/db.py stream_query_results: a generator. Nothing of its body     *)
(* runs before the consumer's first next(); it runs up to the next yield,  *)
(* hands the fragment over and is suspended there until the consumer pulls *)
(* again or closes it (GeneratorExit is raised at the yield).              *)
(***************************************************************************)
MaxStreamPage == 2
MaxStreamPageSize == 3
MaxChunkSize == 2

StreamPages == 0..MaxStreamPage
StreamPageSizes == 0..MaxStreamPageSize
ChunkSizes == 1..MaxChunkSize
StreamSql == "SELECT id, day FROM orders"

IdleStream ==
  [pc |-> "none", mode |-> "suspended", page |-> 1, page_size |-> 1,
   chunk_size |-> 1, conn |-> "none", cur |-> "none", count_cur |-> "none",
   conn_closes |-> 0, cur_closes |-> 0, result |-> <<>>, batch |-> <<>>,
   total |-> None, executed |-> <<>>, counts |-> 0, first_row |-> TRUE, rows_count |-> 0,
   fetches |-> 0, exhausted |-> FALSE, out |-> <<>>, exc |-> None]

Running(pc) == stream.pc = pc /\ stream.mode = "running"
StreamUnchanged ==
  UNCHANGED <<apiVars, store, queue, db, clock, workerVars>>

\* an exception raised inside the try block: control goes to the finally
\* clause and the exception leaves the generator afterwards
StreamRaise(s, cls) == [s EXCEPT !.pc = "finally", !.exc = Some(cls)]

\* yield fragment: the fragment is handed to the consumer and the generator
\* is suspended; it continues at pc
Yield(s, fragment, pc) ==
  [s EXCEPT !.out = Append(s.out, fragment), !.mode = "suspended", !.pc = pc]

\* db.py:72: the call; it returns the generator object
StreamCall(page, page_size, chunk_size) ==
  /\ stream.pc = "none"
  /\ stream' = [IdleStream EXCEPT !.pc = "connect", !.page = page,
                                  !.page_size = page_size,
                                  !.chunk_size = chunk_size]
  /\ StreamUnchanged

\* the consumer's next()
Pull ==
  /\ stream.mode = "suspended"
  /\ stream.pc \notin {"none", "ended"}
  /\ stream' = [stream EXCEPT !.mode = "running"]
  /\ StreamUnchanged

\* the consumer's close(): a generator that has not started just ends; one
\* suspended at a yield gets GeneratorExit raised there
Abandon ==
  /\ stream.mode = "suspended"
  /\ stream.pc \notin {"none", "ended"}
  /\ stream' = IF stream.pc = "connect"
               THEN [stream EXCEPT !.pc = "ended", !.mode = "finished"]
               ELSE [StreamRaise(stream, "GeneratorExit") EXCEPT !.mode = "running"]
  /\ StreamUnchanged

\* db.py:92: conn = get_conn()
Connect ==
  /\ Running("connect")
  /\ \/ stream' = [stream EXCEPT !.conn = "open", !.pc = "cursor"]
     \/ stream' = StreamRaise(stream, "OperationalError")
  /\ StreamUnchanged

\* db.py:93: cur = conn.cursor()
OpenCursor ==
  /\ Running("cursor")
  /\ \/ stream' = [stream EXCEPT !.cur = "open", !.pc = "execute"]
     \/ stream' = StreamRaise(stream, "OperationalError")
  /\ StreamUnchanged

\* the count made after the last row instead of before the header, for
\* comparison
NextStepCountLast(step) ==
  IF step = "execute" THEN "header"
  ELSE IF step = "rows" THEN "count"
  ELSE "pagination_open"

\* a loop without the break at the empty batch, for comparison
NextStepNoBreak(step) ==
  IF step = "execute" THEN "count"
  ELSE IF step = "count" THEN "header"
  ELSE "fetch"

\* db.py:94-121: the statement that follows the page query (the count,
\* line 100), the count (the header, line 103) and the row loop (the
\* pagination, line 121)
NextStep(step) ==
  IF step = "execute" THEN "count"
  ELSE IF step = "count" THEN "header"
  ELSE "pagination_open"

\* db.py:86-87 and 94-97: cur.execute(paginated), cols
ExecutePage ==
  /\ Running("execute")
  /\ LET paginated == PageQuery(stream.page, stream.page_size)
     IN  \/ /\ ~PageQueryInvalid(stream.page, stream.page_size)
            /\ stream' = [stream EXCEPT
                            !.executed = Append(stream.executed, paginated),
                            !.result = Select(db, paginated),
                            !.pc = NextStep("execute")]
         \/ stream' = [StreamRaise(stream, "OperationalError") EXCEPT
                         !.executed = Append(stream.executed, paginated)]
  /\ StreamUnchanged

\* db.py:100 and 33-46: total = run_count(conn, sql); run_count closes its
\* cursor only when neither execute nor fetchone raises
RunCount ==
  /\ Running("count")
  /\ \/ stream' = [stream EXCEPT !.total = Some(Len(db)),
                                 !.counts = stream.counts + 1,
                                 !.count_cur = "closed", !.pc = NextStep("count")]
     \/ stream' = [StreamRaise(stream, "OperationalError") EXCEPT
                     !.counts = stream.counts + 1, !.count_cur = "open"]
  /\ StreamUnchanged

\* db.py:103
HeaderFragment(sql, cols) ==
  <<Tok("{"), TStr("sql"), Tok(":")>> \o DumpsStr(sql)
    \o <<Tok(","), TStr("columns"), Tok(":")>> \o DumpsStrList(cols)
    \o <<Tok(","), TStr("rows"), Tok(":"), Tok("[")>>

\* db.py:103-106
EmitHeader ==
  /\ Running("header")
  /\ stream' = Yield(stream, HeaderFragment(StreamSql, Columns), "fetch")
  /\ StreamUnchanged

\* a separator before every row, the first one too, for comparison
NeedsSeparatorAlways(first_row) == TRUE
\* db.py:114: if not first_row
NeedsSeparator(first_row) == ~first_row

\* where the for loop continues with the next row of the batch
RowPc(first_row) == IF NeedsSeparator(first_row) THEN "separator" ELSE "row"

\* a failed fetch taken for the end of the rows, for comparison
FetchFailedEndsRows(s) ==
  [s EXCEPT !.pc = NextStep("rows"), !.exc = Some("OperationalError")]

\* db.py:109: cur.fetchmany raises; nothing in the loop catches it
FetchFailed(s) == StreamRaise(s, "OperationalError")

\* cur.fetchall() in the place of fetchmany, for comparison
fetchall(result, size) == Len(result)

\* cur.fetchmany(size): the number of rows it takes from the cursor
fetchmany(result, size) == Min(size, Len(result))

\* db.py:109-113: rows = cur.fetchmany(chunk_size); if not rows: break
Fetch ==
  /\ Running("fetch")
  /\ \/ LET k == fetchmany(stream.result, stream.chunk_size)
            rows == SubSeq(stream.result, 1, k)
        IN  stream' = [stream EXCEPT
                         !.fetches = stream.fetches + 1,
                         !.exhausted = (rows = <<>>),
                         !.batch = rows,
                         !.result = SubSeq(stream.result, k + 1, Len(stream.result)),
                         !.pc = IF rows = <<>> THEN NextStep("rows")
                                ELSE RowPc(stream.first_row)]
     \/ stream' = FetchFailed(stream)
  /\ StreamUnchanged

\* db.py:114-115: yield ","
EmitSeparator ==
  /\ Running("separator")
  /\ stream' = Yield(stream, <<Tok(",")>>, "row")
  /\ StreamUnchanged

\* db.py:116-118: yield json.dumps(list(row)); first_row = False; rows_count += 1
\* (the two assignments run when the consumer pulls again; nothing observes
\* the generator in between)
EmitRow ==
  /\ Running("row")
  /\ LET row == Head(stream.batch)
         rest == Tail(stream.batch)
     IN  stream' =
           IF RowSerializable(row)
           THEN [Yield(stream, DumpsRow(row),
                       IF rest = <<>> THEN "fetch" ELSE RowPc(FALSE))
                   EXCEPT !.batch = rest, !.first_row = FALSE,
                          !.rows_count = stream.rows_count + 1]
           ELSE StreamRaise(stream, "TypeError")
  /\ StreamUnchanged

\* db.py:121: yield '], "pagination": {'
EmitPaginationOpen ==
  /\ Running("pagination_open")
  /\ stream' = Yield(stream,
                     <<Tok("]"), Tok(","), TStr("pagination"), Tok(":"), Tok("{")>>,
                     "pagination")
  /\ StreamUnchanged

\* db.py:122: page, page_size, total_rows and the comma after them
EmitPagination ==
  /\ Running("pagination")
  /\ stream' = Yield(stream,
                     <<TStr("page"), Tok(":"), TNum(stream.page), Tok(","),
                       TStr("page_size"), Tok(":"), TNum(stream.page_size), Tok(","),
                       TStr("total_rows"), Tok(":"), TNum(stream.total[1]), Tok(",")>>,
                     "total_pages")
  /\ StreamUnchanged

\* db.py:123: total_pages; a page_size of 0 raises ZeroDivisionError
EmitTotalPages ==
  /\ Running("total_pages")
  /\ stream' =
       IF stream.page_size = 0
       THEN StreamRaise(stream, "ZeroDivisionError")
       ELSE Yield(stream,
                  <<TStr("total_pages"), Tok(":"),
                    TNum(TotalPages(stream.total[1], stream.page_size))>>,
                  "end")
  /\ StreamUnchanged

\* db.py:124: yield '}}'; the generator continues into the finally clause
EmitEnd ==
  /\ Running("end")
  /\ stream' = Yield(stream, <<Tok("}"), Tok("}")>>, "finally")
  /\ StreamUnchanged

\* db.py:127-130 without the try: the page cursor and the connection are
\* closed only when control arrives there without an exception
CloseOnSuccessOnly(s) ==
  IF IsSome(s.exc) THEN s
  ELSE [s EXCEPT !.cur = "closed", !.cur_closes = s.cur_closes + 1,
                 !.conn = "closed", !.conn_closes = s.conn_closes + 1]

\* db.py:126-130: if cur: cur.close(); if conn: conn.close()
CloseOpened(s) ==
  [s EXCEPT !.cur = IF s.cur = "none" THEN "none" ELSE "closed",
            !.cur_closes = IF s.cur = "none" THEN s.cur_closes
                           ELSE s.cur_closes + 1,
            !.conn = IF s.conn = "none" THEN "none" ELSE "closed",
            !.conn_closes = IF s.conn = "none" THEN s.conn_closes
                            ELSE s.conn_closes + 1]

\* db.py:126-130: the finally clause; afterwards the generator has ended, by
\* StopIteration or by the exception that was under way
Finally ==
  /\ Running("finally")
  /\ stream' = [CloseOpened(stream) EXCEPT !.pc = "ended", !.mode = "finished"]
  /\ StreamUnchanged

(***************************************************************************)
(* api.py:177-188: the document of the paginated response, as the JSON     *)
(* value the framework's encoder makes of it (a date becomes its ISO text).*)
(***************************************************************************)
EncodeCell(cell) ==
  IF cell.t = "int" THEN JNum(cell.n)
  ELSE IF cell.t = "none" THEN JNull
  ELSE JStr(cell.s)

EncodeRow(row) == JArr([i \in 1..Len(row) |-> EncodeCell(row[i])])

QueryDocument(sql, res, page, page_size) ==
  JObj(<<"sql", "columns", "rows", "pagination">>,
       << JStr(sql),
          JArr([i \in 1..Len(res.cols) |-> JStr(res.cols[i])]),
          JArr([i \in 1..Len(res.rows) |-> EncodeRow(res.rows[i])]),
          JObj(<<"page", "page_size", "total_rows", "total_pages">>,
               << JNum(page), JNum(page_size), JNum(res.total),
                  JNum(TotalPages(res.total, page_size)) >>) >>)

(***************************************************************************)
(* Initial values.                                                         *)
(***************************************************************************)
EmptyStore == [j \in {} |-> NewJob(S3Key(j), 0)]

NoWorkers ==
  /\ workers = [w \in Workers |-> IdleWorker]
  /\ disk = [w \in Workers |-> [j \in JobIds |-> None]]
  /\ s3 = [j \in JobIds |-> None]

NoStream == stream = IdleStream


\* the tables of at most MaxRows rows: integer ids, day a date or NULL
RECURSIVE Tables(_)
Tables(n) ==
  IF n = 0 THEN {<<>>}
  ELSE {Append(t, <<IntCell(n), day>>) :
          t \in Tables(n - 1), day \in {NullCell, DateCell("2024-01-01")}}

(***************************************************************************)
(* The API's specification.                                                *)
(***************************************************************************)
InitApi ==
  /\ client \in BOOLEAN
  /\ reqs = [r \in Requests |-> IdleRequest]
  /\ nextJob = 0
  /\ queueUrl = None
  /\ store = EmptyStore
  /\ queue = {}
  /\ db = Table(MaxRows)
  /\ clock = 0
  /\ NoWorkers
  /\ NoStream

NextApi ==
  \E r \in Requests :
    \/ ReceiveUnconfigured(r)
    \/ Receive(r)
    \/ GetSchema(r)
    \/ Generate(r)
    \/ RunPageQuery(r)
    \/ RunCountAndRespond(r)
    \/ InsertJob(r)
    \/ QueueUrlCached(r)
    \/ QueueUrlLookup(r)
    \/ SendMessage(r)

SpecApi == InitApi /\ [][NextApi]_vars

(***************************************************************************)
(* The worker's specification: one export job has been submitted, with its *)
(* PENDING record and its message as export_start leaves them, and the     *)
(* queue delivers the message up to MaxDeliveries times.                   *)
(***************************************************************************)
InitWorker ==
  /\ client = TRUE
  /\ reqs = [r \in Requests |-> IdleRequest]
  /\ nextJob = 1
  /\ queueUrl = Some("QueueUrl")
  /\ store = [j \in {1} |-> NewJob(S3Key(j), 0)]
  /\ queue = {Message(1, SqlSelect1)}
  /\ db \in {Table(n) : n \in 0..MaxRows}
  /\ clock = 0
  /\ NoWorkers
  /\ NoStream

NextWorker ==
  \E w \in Workers :
    \/ Deliver(w)
    \/ MarkInProgress(w)
    \/ Export(w)
    \/ Upload(w)
    \/ Remove(w)
    \/ MarkSuccess(w)
    \/ MarkFailed(w)

SpecWorker == InitWorker /\ [][NextWorker]_vars

(***************************************************************************)
(* The worker, and a client that asks for the status of a job once.        *)
(***************************************************************************)
NextStatus ==
  \/ NextWorker
  \/ \E job_id \in JobIds : ExportStatus(1, job_id)

SpecStatus == InitWorker /\ [][NextStatus]_vars


(***************************************************************************)
(* One call of stream_query_results and its consumer.                      *)
(***************************************************************************)
InitStream ==
  /\ client = TRUE
  /\ reqs = [r \in Requests |-> IdleRequest]
  /\ nextJob = 0
  /\ queueUrl = None
  /\ store = EmptyStore
  /\ queue = {}
  /\ db \in UNION {Tables(n) : n \in 0..MaxRows}
  /\ clock = 0
  /\ NoWorkers
  /\ NoStream

NextStream ==
  \/ \E page \in StreamPages, page_size \in StreamPageSizes, chunk_size \in ChunkSizes :
       StreamCall(page, page_size, chunk_size)
  \/ Pull
  \/ Abandon
  \/ Connect
  \/ OpenCursor
  \/ ExecutePage
  \/ RunCount
  \/ EmitHeader
  \/ Fetch
  \/ EmitSeparator
  \/ EmitRow
  \/ EmitPaginationOpen
  \/ EmitPagination
  \/ EmitTotalPages
  \/ EmitEnd
  \/ Finally

SpecStream == InitStream /\ [][NextStream]_vars

\* the statements of the generator between two yields
GeneratorStep ==
  \/ Connect
  \/ OpenCursor
  \/ ExecutePage
  \/ RunCount
  \/ EmitHeader
  \/ Fetch
  \/ EmitSeparator
  \/ EmitRow
  \/ EmitPaginationOpen
  \/ EmitPagination
  \/ EmitTotalPages
  \/ EmitEnd
  \/ Finally

\* a generator that was resumed runs to its next yield, and a consumer that
\* has a suspended generator pulls again or closes it
SpecStreamLive ==
  /\ SpecStream
  /\ WF_vars(GeneratorStep)
  /\ WF_vars(Pull \/ Abandon)

(***************************************************************************)
(* One request to a configured service whose model answers any of Texts:   *)
(* the handlers up to the call of extract_sql                              *)
(***************************************************************************)
InitExtract ==
  /\ InitApi
  /\ client

NextExtract ==
  \/ Receive(1)
  \/ GetSchema(1)
  \/ GenerateFrom(1, Texts)

SpecExtract == InitExtract /\ [][NextExtract]_vars

(***************************************************************************)
(* One request whose model answers any of SqlTexts: the handlers up to the *)
(* validation                                                              *)
(***************************************************************************)
NextSafe ==
  \/ Receive(1)
  \/ GetSchema(1)
  \/ GenerateFrom(1, SqlTexts)

SpecSafe == InitExtract /\ [][NextSafe]_vars

(***************************************************************************)
(* One request to a configured service together with the worker: what      *)
(* export_start sends is what lambda_handler receives                      *)
(***************************************************************************)
InitExport ==
  /\ client = TRUE
  /\ reqs = [r \in Requests |-> IdleRequest]
  /\ nextJob = 0
  /\ queueUrl \in {None, Some("QueueUrl")}
  /\ store = EmptyStore
  /\ queue = {}
  /\ db = Table(MaxRows)
  /\ clock = 0
  /\ NoWorkers
  /\ NoStream

NextExport ==
  \/ Receive(1)
  \/ GetSchema(1)
  \/ Generate(1)
  \/ RunPageQuery(1)
  \/ RunCountAndRespond(1)
  \/ InsertJob(1)
  \/ QueueUrlCached(1)
  \/ QueueUrlLookup(1)
  \/ SendMessage(1)
  \/ NextWorker

SpecExport == InitExport /\ [][NextExport]_vars

(***************************************************************************)
(* One invocation of lambda_handler over an event of several records: a    *)
(* job and a message for each of JobIds, each with a statement of its own  *)
(***************************************************************************)
RECURSIVE JobSql(_)
JobSql(j) == IF j = 1 THEN SqlSelect1 ELSE Append(JobSql(j - 1), "1")

InitBatch ==
  /\ client = TRUE
  /\ reqs = [r \in Requests |-> IdleRequest]
  /\ nextJob = NumJobs
  /\ queueUrl = Some("QueueUrl")
  /\ store = [j \in JobIds |-> NewJob(S3Key(j), 0)]
  /\ queue = {Message(j, JobSql(j)) : j \in JobIds}
  /\ db \in {Table(n) : n \in 0..MaxRows}
  /\ clock = 0
  /\ NoWorkers
  /\ NoStream

NextBatch ==
  \/ Deliver(1)
  \/ MarkInProgress(1)
  \/ Export(1)
  \/ Upload(1)
  \/ Remove(1)
  \/ MarkSuccess(1)
  \/ MarkFailed(1)

SpecBatch == InitBatch /\ [][NextBatch]_vars
(***************************************************************************)
(* Claims about the API.                                                   *)
(***************************************************************************)
AllSqls == {ExtractedSql[t] : t \in ModelOutputs}
\* the SQL texts that fail one of the two checks of the data model
InvalidSqls == {s \in AllSqls : ~StartsWithSelect(s) \/ ~is_safe(s)}
NotSelectSqls == {s \in AllSqls : ~StartsWithSelect(s)}
UnsafeSelectSqls == {s \in AllSqls : StartsWithSelect(s) /\ ~is_safe(s)}

InLog(r, call) == \E i \in 1..Len(reqs[r].log) : reqs[r].log[i] = call
Rejected400(r) ==
  /\ reqs[r].pc = "done"
  /\ reqs[r].resp[1].status = 400
  /\ reqs[r].resp[1].detail = "Unsafe or invalid SQL generated"

\* C1: in POST /query, an extracted SQL that does not start with "select" or
\* holds a whole-word mutating keyword ends the request in the 400 rejection;
\* neither the page query nor the count query is run for it, and the model
\* is not asked again (the SQL is not rewritten and retried).
C1_QueryRejectsInvalidSql ==
  \A r \in Requests :
    (reqs[r].kind = "query" /\ IsSome(reqs[r].sql) /\ reqs[r].sql[1] \in InvalidSqls)
      => /\ Rejected400(r)
         /\ ~InLog(r, "page_query")
         /\ ~InLog(r, "count_query")
         /\ Cardinality({i \in 1..Len(reqs[r].log) : reqs[r].log[i] = "create"}) = 1

\* a query was rejected for SQL that starts with select and holds a mutating
\* keyword, and another for SQL that does not start with select
C1_Witness ==
  /\ \E r \in Requests :
       /\ reqs[r].kind = "query" /\ IsSome(reqs[r].sql)
       /\ reqs[r].sql[1] \in UnsafeSelectSqls /\ Rejected400(r)
  /\ \E r \in Requests :
       /\ reqs[r].kind = "query" /\ IsSome(reqs[r].sql)
       /\ reqs[r].sql[1] \in NotSelectSqls /\ Rejected400(r)

\* C2: export_start commits the PENDING record before it sends the message:
\* every message in the queue names a job whose record exists, and a request
\* that is about to send has its record in the store.
C2_RecordBeforeMessage ==
  /\ \A m \in queue : m.job_id \in DOMAIN store
  /\ \A r \in Requests :
       reqs[r].pc \in {"queue_url", "send"}
         => /\ reqs[r].job_id[1] \in DOMAIN store
            /\ store[reqs[r].job_id[1]].s3_key = S3Key(reqs[r].job_id[1])

\* a message is in the queue while another request has inserted its record
\* and not yet sent its message
C2_Witness ==
  /\ queue # {}
  /\ \E r \in Requests : reqs[r].pc = "send"

\* C9: in POST /export/start, SQL that fails the validation ends the request
\* in the 400 rejection with no job id generated, no record inserted and no
\* message sent; no message in the queue carries SQL that fails the checks.
C9_ExportRejectsInvalidSql ==
  /\ \A r \in Requests :
       (reqs[r].kind = "export" /\ IsSome(reqs[r].sql) /\ reqs[r].sql[1] \in InvalidSqls)
         => /\ Rejected400(r)
            /\ reqs[r].job_id = None
            /\ ~InLog(r, "insert_job")
            /\ ~InLog(r, "send_message")
  /\ \A m \in queue : m.sql \notin InvalidSqls
  /\ Cardinality(DOMAIN store) <=
       Cardinality({r \in Requests : reqs[r].kind = "export" /\ InLog(r, "insert_job")
                                      /\ reqs[r].sql[1] \notin InvalidSqls})

\* an export request was rejected while another one was accepted and queued
C9_Witness ==
  /\ \E r \in Requests :
       /\ reqs[r].kind = "export" /\ IsSome(reqs[r].sql)
       /\ reqs[r].sql[1] \in InvalidSqls /\ Rejected400(r)
  /\ Cardinality(queue) = 1
  /\ Cardinality(DOMAIN store) = 1


\* where a finished request that was not answered 200 failed
LastCall(r) == reqs[r].log[Len(reqs[r].log)]
Failed(r) == reqs[r].pc = "done" /\ reqs[r].resp[1].status # 200
FailurePoint(r) ==
  IF reqs[r].log = <<>> THEN "unconfigured"
  ELSE IF LastCall(r) = "create" THEN "model"
  ELSE IF LastCall(r) = "is_safe" THEN "validation"
  ELSE IF LastCall(r) \in {"page_query", "count_query"} THEN "database"
  ELSE "other"
FourPoints == {"unconfigured", "model", "validation", "database"}
Outcome(r) == <<reqs[r].resp[1].status, reqs[r].resp[1].detail>>

\* C14: in POST /query a raising model call is answered 502, a validation
\* rejection 400, a raising database execution 503, and two requests that
\* failed at different ones of the four failure points got responses that
\* differ.
C14_FailurePointsTellApart ==
  /\ \A r \in Requests :
       (reqs[r].kind = "query" /\ Failed(r))
         => /\ FailurePoint(r) = "model" => reqs[r].resp[1].status = 502
            /\ FailurePoint(r) = "validation" => reqs[r].resp[1].status = 400
            /\ FailurePoint(r) = "database" => reqs[r].resp[1].status = 503
  /\ \A r1, r2 \in Requests :
       ( /\ reqs[r1].kind = "query" /\ Failed(r1)
         /\ reqs[r2].kind = "query" /\ Failed(r2)
         /\ FailurePoint(r1) \in FourPoints /\ FailurePoint(r2) \in FourPoints
         /\ FailurePoint(r1) # FailurePoint(r2) )
         => Outcome(r1) # Outcome(r2)

\* C15: with no model client, POST /query is answered 503 'LLM service not
\* configured' and POST /export/start 500 'LLM not configured', and no
\* collaborator was called: nothing logged, no record, no message.
C15_UnconfiguredAnswers ==
  \A r \in Requests :
    (~client /\ reqs[r].pc = "done")
      => /\ reqs[r].log = <<>>
         /\ store = EmptyStore /\ queue = {}
         /\ reqs[r].kind = "query"
              => Outcome(r) = <<503, "LLM service not configured">>
         /\ reqs[r].kind = "export"
              => Outcome(r) = <<500, "LLM not configured">>

\* C16: no exception of a dependency call leaves a handler: every finished
\* request carries a response the handler built.
C16_NoExceptionEscapes ==
  \A r \in Requests :
    reqs[r].pc = "done" => ~reqs[r].resp[1].escaped

RejectedByValidation(r) ==
  /\ reqs[r].pc = "done" /\ IsSome(reqs[r].sql)
  /\ reqs[r].sql[1] \in InvalidSqls

\* C17: two requests whose SQL failed the validation got the same response,
\* status 400 with detail 'Unsafe or invalid SQL generated', whichever of the
\* two tests failed (or both) and whichever of the two endpoints was called.
C17_RejectionsAreAlike ==
  \A r1, r2 \in Requests :
    (RejectedByValidation(r1) /\ RejectedByValidation(r2))
      => /\ reqs[r1].resp = reqs[r2].resp
         /\ Outcome(r1) = <<400, "Unsafe or invalid SQL generated">>

\* a query rejected for SQL that only fails the starts-with-select test and
\* an export rejected for SQL that only fails the keyword test
C17_Witness ==
  \E r1, r2 \in Requests :
    /\ RejectedByValidation(r1) /\ RejectedByValidation(r2)
    /\ reqs[r1].kind = "query" /\ reqs[r2].kind = "export"
    /\ ~StartsWithSelect(reqs[r1].sql[1]) /\ is_safe(reqs[r1].sql[1])
    /\ reqs[r2].sql[1] \in UnsafeSelectSqls

Calls(r, call) == Cardinality({i \in 1..Len(reqs[r].log) : reqs[r].log[i] = call})
ExportAnswered(r) ==
  /\ reqs[r].kind = "export" /\ reqs[r].pc = "done"
  /\ reqs[r].resp[1].status = 200

\* C19: an export request that was answered 200 has inserted one record and
\* sent one message; record and message carry the request's job_id and the
\* key <prefix>/<job_id>.csv, the message carries the SQL that passed the
\* validation; the answer is {job_id, status: PENDING}, given while the
\* record is PENDING and no worker has taken the job; no two requests have
\* the same job_id.
C19_OneRecordOneMessage ==
  \A r \in Requests :
    ExportAnswered(r) =>
      LET j == reqs[r].job_id[1]
      IN  /\ Calls(r, "uuid4") = 1
          /\ Calls(r, "insert_job") = 1
          /\ Calls(r, "send_message") = 1
          /\ j \in DOMAIN store
          /\ store[j].s3_key = [prefix |-> EXPORT_PREFIX, job_id |-> j, ext |-> "csv"]
          /\ store[j].status = "PENDING"
          /\ {m \in queue : m.job_id = j}
               = {[job_id |-> j, sql |-> reqs[r].sql[1], s3_key |-> store[j].s3_key]}
          /\ reqs[r].sql[1] \notin InvalidSqls
          /\ reqs[r].resp[1].body = Some([job_id |-> j, status |-> "PENDING"])
          /\ \A w \in Workers : workers[w].pc = "idle"
          /\ \A q \in Requests \ {r} :
               IsSome(reqs[q].job_id) => reqs[q].job_id[1] # j

\* two export requests were answered
C19_Witness ==
  /\ \A r \in Requests : ExportAnswered(r)
  /\ Cardinality(queue) = MaxRequests
  /\ Cardinality(DOMAIN store) = MaxRequests


\* the positions of the opening and of the closing tags of a text, in any
\* letter case
OpenTagsOf(text) ==
  {i \in 1..Len(text) :
     i + 4 <= Len(text) /\ <<"<","s","q","l",">">> =
       [k \in 1..5 |-> ToLower(text[i + k - 1])]}
CloseTagsOf(text) ==
  {j \in 1..Len(text) :
     j + 5 <= Len(text) /\ <<"<","/","s","q","l",">">> =
       [k \in 1..6 |-> ToLower(text[j + k - 1])]}

\* the text between the first opening tag and the first closing tag after
\* it, or the whole text when there is no such pair
TaggedPart(text) ==
  IF OpenTagsOf(text) = {} THEN text
  ELSE LET i == CHOOSE a \in OpenTagsOf(text) : \A b \in OpenTagsOf(text) : a <= b
           after == {j \in CloseTagsOf(text) : j >= i + 5}
       IN IF after = {} THEN text
          ELSE SubSeq(text, i + 5, (CHOOSE a \in after : \A b \in after : a <= b) - 1)

\* out is s without the white space at its two ends
IsTrimOf(out, s) ==
  /\ out # <<>> => out[1] \notin Whitespace /\ out[Len(out)] \notin Whitespace
  /\ \E a \in 0..Len(s) :
       /\ a + Len(out) <= Len(s)
       /\ \A k \in 1..Len(out) : s[a + k] = out[k]
       /\ \A k \in 1..Len(s) : (k <= a \/ k > a + Len(out)) => s[k] \in Whitespace

\* C20: whatever text the model gave, extract_sql returned a value, and that
\* value is the trimmed text between the first opening <sql> tag and the
\* first closing </sql> tag after it (tags in any letter case, later tags
\* ignored), or the whole text trimmed when it holds no such pair.
C20_ExtractSqlIsTrimmedTaggedPart ==
  \A r \in Requests :
    IsSome(reqs[r].content) =>
      /\ IsSome(reqs[r].sql)
      /\ IsTrimOf(reqs[r].sql[1], TaggedPart(reqs[r].content[1]))

\* a text with an opening tag in mixed case and two closing tags gave the
\* text before the first closing tag
C20_Witness ==
  /\ reqs[1].content = Some(<<"<","s","Q","l",">","x","<","/","s","q","l",">","<","/","S","Q","L",">">>)
  /\ reqs[1].sql = Some(<<"x">>)

\* the words of a text: its maximal runs of letters, digits and underscores,
\* in lower case
WordsOf(text) ==
  LET inWord(k) == IsWordChar(text[k])
      starts == {a \in 1..Len(text) : inWord(a) /\ (a > 1 => ~inWord(a - 1))}
      ends == {b \in 1..Len(text) : inWord(b) /\ (b < Len(text) => ~inWord(b + 1))}
      endOf(a) == CHOOSE b \in ends : b >= a /\ \A c \in ends : c >= a => b <= c
  IN {[k \in 1..(endOf(a) - a + 1) |-> ToLower(text[a + k - 1])] : a \in starts}

\* C21: for a generated statement that begins with SELECT, the validation
\* rejects it exactly when one of its words, in any letter case, is one of
\* the eleven mutating keywords; a keyword inside a longer identifier does
\* not count, a keyword inside a string literal or after a semicolon does.
C21_UnsafeIffKeywordIsAWord ==
  /\ Cardinality(WriteKeywords) = 11
  /\ \A r \in Requests :
       (IsSome(reqs[r].sql) /\ StartsWithSelect(reqs[r].sql[1])) =>
         (Rejected400(r) <=> WordsOf(reqs[r].sql[1]) \cap WriteKeywords # {})

\* "select updated_at" was accepted
C21_Witness ==
  /\ reqs[1].sql = Some(<<"s","e","l","e","c","t"," ","u","p","d","a","t","e","d","_","a","t">>)
  /\ reqs[1].pc \in {"page_query", "insert_job"}

\* the request has come to the execution of its page
AtPageExecution(r) ==
  /\ reqs[r].kind = "query"
  /\ reqs[r].pc \in {"page_query", "count_query"} \/ InLog(r, "page_query")

\* C23: a /query request that reaches the execution of its page has
\* page >= 1 and page_size >= 1, so that the offset is not negative and the
\* divisor of total_pages is not zero.
C23_PageExecutionHasValidPage ==
  \A r \in Requests :
    AtPageExecution(r) =>
      /\ reqs[r].page >= 1
      /\ reqs[r].page_size >= 1
      /\ PageOffset(reqs[r].page, reqs[r].page_size) >= 0

\* the steps of the two pipelines, in the order of api.py:161-177 and
\* 205-225
CommonSteps ==
  <<"get_schema_text", "enrich_query", "build_prompt", "create",
    "extract_sql", "is_safe">>
Pipeline(kind) ==
  IF kind = "query" THEN CommonSteps \o <<"page_query", "count_query">>
  ELSE CommonSteps \o <<"uuid4", "insert_job", "_queue_url", "send_message">>
StepNames(kind) == {Pipeline(kind)[i] : i \in 1..Len(Pipeline(kind))}
IsStepOf(r, call) == call \in StepNames(reqs[r].kind)
StepsOf(r) == SelectSeq(reqs[r].log, LAMBDA call : IsStepOf(r, call))
IsPrefix(s, t) == Len(s) <= Len(t) /\ s = SubSeq(t, 1, Len(s))

\* C28: the calls a request has made are the steps of its pipeline in
\* order, from the first one on and each at most once: no step was made
\* before the ones ahead of it, none was made twice, and a request that was
\* answered with a failure made no call after the one that failed; the queue
\* URL is looked up at most once; a request answered 200 made every step.
C28_SingleForwardPass ==
  \A r \in Requests :
    reqs[r].kind # "none" =>
      /\ IsPrefix(StepsOf(r), Pipeline(reqs[r].kind))
      /\ \A i \in 1..Len(reqs[r].log) :
           reqs[r].log[i] \in {"get_sqs", "get_queue_url"}
             \/ IsStepOf(r, reqs[r].log[i])
      /\ Calls(r, "get_queue_url") <= 1
      /\ (reqs[r].pc = "done" /\ reqs[r].resp[1].status = 200)
           => StepsOf(r) = Pipeline(reqs[r].kind)

\* a query and an export that went through their whole pipelines
C28_Witness ==
  \E r, q \in Requests :
    /\ reqs[r].kind = "query" /\ reqs[r].pc = "done" /\ reqs[r].resp[1].status = 200
    /\ reqs[q].kind = "export" /\ reqs[q].pc = "done" /\ reqs[q].resp[1].status = 200
    /\ Calls(q, "get_queue_url") = 1

\* C32: after an export request has ended, on whatever path, a PENDING
\* record for its job exists exactly when a message for that job was sent; a
\* failed queue-URL lookup or send leaves no record behind.
C32_StoreAndQueueAgree ==
  \A r \in Requests :
    (reqs[r].kind = "export" /\ reqs[r].pc = "done" /\ IsSome(reqs[r].job_id)) =>
      LET j == reqs[r].job_id[1]
      IN  (j \in DOMAIN store /\ store[j].status = "PENDING")
            <=> (\E m \in queue : m.job_id = j)

\* the other direction alone: a message is never sent without its record
C32_MessageHasRecord ==
  \A m \in queue : m.job_id \in DOMAIN store

\* C35: when a /query request has ended, the connection and the cursor that
\* run_page opened are closed, whether run_page returned or raised; an
\* answer of 200 carries columns, rows and the total, any other answer
\* carries no body.
C35_RunPageClosesAndReturnsWhole ==
  \A r \in Requests :
    (reqs[r].kind = "query" /\ reqs[r].pc = "done") =>
      /\ reqs[r].conn \in {"none", "closed"}
      /\ reqs[r].cur \in {"none", "closed"}
      /\ IF reqs[r].resp[1].status = 200
         THEN reqs[r].resp[1].body[1] =
                [sql |-> reqs[r].sql[1],
                 columns |-> Columns,
                 rows |-> PageRows(db, reqs[r].page, reqs[r].page_size),
                 pagination |-> Pagination(reqs[r].page, reqs[r].page_size, Len(db))]
         ELSE reqs[r].resp[1].body = None

\* the second half alone: run_page hands over the whole triple or nothing,
\* and closes what it opened whenever it returns
C35_WholeOrNothing ==
  \A r \in Requests :
    (reqs[r].kind = "query" /\ reqs[r].pc = "done") =>
      IF reqs[r].resp[1].status = 200
      THEN /\ reqs[r].conn = "closed" /\ reqs[r].cur = "closed"
           /\ reqs[r].resp[1].body[1].rows
                = PageRows(db, reqs[r].page, reqs[r].page_size)
           /\ reqs[r].resp[1].body[1].pagination.total_rows = Len(db)
      ELSE reqs[r].resp[1].body = None
(***************************************************************************)
(* Claims about the export worker.                                         *)
(***************************************************************************)
Finished(w) == workers[w].pc \in {"returned", "raised"}
JobOf(w) == workers[w].records[workers[w].idx].job_id

\* C3: under any sequence of deliveries, redelivery included, a job's stored
\* status only moves PENDING -> IN_PROGRESS -> SUCCESS or FAILED: never
\* backward, and never to a terminal status without being IN_PROGRESS first.
C3_StatusOnlyMovesForward ==
  [][\A j \in DOMAIN store :
       store'[j].status # store[j].status
         => <<store[j].status, store'[j].status>> \in
              { <<"PENDING", "IN_PROGRESS">>, <<"IN_PROGRESS", "SUCCESS">>,
                <<"IN_PROGRESS", "FAILED">> }]_vars

\* C4: once every delivery of a job's message has been processed, a SUCCESS
\* record carries no error text of an earlier failed run and a FAILED record
\* carries no row_count of an earlier successful run.
C4_FieldsConsistentWithStatus ==
  (\A w \in Workers : workers[w].pc = "idle" \/ Finished(w))
    => \A j \in DOMAIN store :
         /\ store[j].status = "SUCCESS" => store[j].error = None
         /\ store[j].status = "FAILED" => store[j].row_count = None

\* C5 as stated: whenever a step of processing a record has raised, the
\* worker has written FAILED before the exception leaves the handler.
C5_FailureAlwaysRecorded ==
  \A w \in Workers :
    IsSome(workers[w].exc)
      => \/ workers[w].pc = "mark_failed"
         \/ workers[w].pc = "raised" /\ workers[w].wrote_failed

\* C5, amended: a step that raises takes the worker to the except clause and
\* nowhere else; the except clause calls the FAILED write; when the write
\* succeeds the record is FAILED with a finish timestamp and a non-empty error
\* text and the original exception is re-raised; when the write itself raises,
\* the record is left as it was and that exception leaves the handler. The
\* handler never returns normally, and processes no further record, after a
\* failure.
C5_FailureRecordedThenRaised ==
  [][\A w \in Workers :
       /\ (~IsSome(workers[w].exc) /\ IsSome(workers'[w].exc))
            => /\ workers'[w].pc = "mark_failed"
               /\ store' = store
       /\ (workers[w].pc = "mark_failed" /\ workers'[w] # workers[w])
            => /\ workers'[w].pc = "raised"
               /\ IF workers'[w].wrote_failed
                  THEN /\ workers'[w].exc = workers[w].exc
                       /\ store'[JobOf(w)].status = "FAILED"
                       /\ IsSome(store'[JobOf(w)].finished_at)
                       /\ IsSome(store'[JobOf(w)].error)
                       /\ ErrorTextLen(store'[JobOf(w)].error[1]) > 0
                  ELSE /\ store' = store
                       /\ workers'[w].exc = Some(Raised("mark_failed"))
       /\ (workers[w].pc = "raised") => workers'[w] = workers[w]
       /\ (workers'[w].pc = "returned") => ~IsSome(workers'[w].exc)]_vars

\* one invocation has recorded FAILED and re-raised an upload failure, another
\* has seen the FAILED write itself raise
C5_Witness ==
  /\ \E w \in Workers :
       /\ workers[w].pc = "raised" /\ workers[w].wrote_failed
       /\ workers[w].exc[1].at = "upload_file"
       /\ store[JobOf(w)].status = "FAILED"
  /\ \E w \in Workers :
       /\ workers[w].pc = "raised" /\ ~workers[w].wrote_failed

\* C10: when the worker has failed between opening the cursor and the upload
\* (and no other delivery of the message has been processed), the job is
\* FAILED with a non-empty error text, its temporary file is not on the disk
\* and no object is stored under its key.
C10_FailureLeavesNothing ==
  \A w \in Workers :
    ( /\ workers[w].pc = "raised" /\ workers[w].wrote_failed
      /\ workers[w].exc[1].at \in {"execute", "fetchmany", "upload_file"}
      /\ \A v \in Workers \ {w} : workers[v].pc = "idle" )
      => /\ store[JobOf(w)].status = "FAILED"
         /\ IsSome(store[JobOf(w)].error)
         /\ ErrorTextLen(store[JobOf(w)].error[1]) > 0
         /\ disk[w][JobOf(w)] = None
         /\ s3[JobOf(w)] = None

\* C11: a job whose stored status is SUCCESS has a row_count equal to the
\* number of data rows in the uploaded file (the header is not counted), and
\* that is the number of rows of the result, whatever the number of rows and
\* the batch size.
C11_RowCountIsRowsWritten ==
  \A j \in DOMAIN store :
    store[j].status = "SUCCESS"
      => /\ IsSome(s3[j])
         /\ store[j].row_count = Some(s3[j][1].rows)
         /\ store[j].row_count = Some(Len(db))

\* a result fetched in full batches and a shorter last one
C11_Witness ==
  /\ Len(db) > BATCH_SIZE /\ Len(db) % BATCH_SIZE # 0
  /\ \E j \in DOMAIN store :
       /\ store[j].status = "SUCCESS"
       /\ \E w \in Workers : workers[w].pc = "returned" /\ JobOf(w) = j

\* C18: a status request whose calls did not raise is answered 404 'job not
\* found' when the store has no record of the job, and otherwise 200 with
\* the record's status; the answer carries download_url and row_count exactly
\* when the status is SUCCESS and error exactly when it is FAILED; the
\* request leaves the store as it was.
C18_StatusAnswer ==
  [][\A r \in Requests :
       (reqs'[r] # reqs[r] /\ reqs'[r].kind = "status")
         => /\ store' = store
            /\ reqs'[r].pc = "done"
            /\ ~reqs'[r].resp[1].escaped =>
                 LET j == reqs'[r].job_id[1]
                     resp == reqs'[r].resp[1]
                 IN  IF j \notin DOMAIN store
                     THEN /\ resp.status = 404 /\ resp.detail = "job not found"
                          /\ resp.body = None
                     ELSE /\ resp.status = 200
                          /\ resp.body[1].job_id = j
                          /\ resp.body[1].status = store[j].status
                          /\ IsSome(resp.body[1].download_url) <=> store[j].status = "SUCCESS"
                          /\ IsSome(resp.body[1].row_count) <=> store[j].status = "SUCCESS"
                          /\ IsSome(resp.body[1].error) <=> store[j].status = "FAILED"
                          /\ store[j].status = "SUCCESS"
                               => /\ resp.body[1].row_count = store[j].row_count
                                  /\ resp.body[1].download_url[1].key = store[j].s3_key
                          /\ store[j].status = "FAILED"
                               => resp.body[1].error = store[j].error]_vars

\* the answer for a job that succeeded on redelivery after a failed run: the
\* record still holds the old error text, the answer does not carry it
C18_Witness ==
  /\ reqs[1].kind = "status" /\ reqs[1].pc = "done"
  /\ reqs[1].resp[1].status = 200
  /\ reqs[1].resp[1].body[1].status = "SUCCESS"
  /\ IsSome(reqs[1].resp[1].body[1].download_url)
  /\ reqs[1].resp[1].body[1].error = None
  /\ IsSome(store[reqs[1].job_id[1]].error)


\* the class name, ": ", the line break and the truncated trace
ErrorTextBound == Len("Exception") + 2 + 1 + TraceLimit

\* C22: the error text stored for a job is never longer than a fixed bound of
\* about 1500 characters, however long the exception's message and trace are.
C22_ErrorTextBounded ==
  \A j \in DOMAIN store :
    IsSome(store[j].error) =>
      ErrorTextLen(store[j].error[1]) <= ErrorTextBound + 100

\* the part of the error text taken from the trace is bounded by TraceLimit
C22_TraceBounded ==
  \A j \in DOMAIN store :
    IsSome(store[j].error) => store[j].error[1].trace_len <= TraceLimit

\* the object under the job's key holds the header and every row of the
\* job's statement
ObjectComplete(j) == s3[j] = Some([rows |-> Len(db)])

\* C29: whenever a job's stored status is SUCCESS, the object under its key
\* is there and complete, with deliveries repeated and invocations running
\* at the same time; so an answer of GET /export/status that carries a
\* download URL belongs to a complete object.
C29_SuccessHasCompleteObject ==
  /\ \A j \in DOMAIN store : store[j].status = "SUCCESS" => ObjectComplete(j)
  /\ \A r \in Requests :
       (reqs[r].kind = "status" /\ IsSome(reqs[r].resp[1].body)
          /\ IsSome(reqs[r].resp[1].body[1].download_url))
         => ObjectComplete(reqs[r].resp[1].body[1].download_url[1].key.job_id)

\* the job is SUCCESS and its URL was handed out while a second delivery of
\* the same message is writing its file
C29_Witness ==
  /\ store[1].status = "SUCCESS"
  /\ ObjectComplete(1)
  /\ Len(db) = MaxRows
  /\ \E w \in Workers : workers[w].pc = "returned"
  /\ \E w \in Workers : workers[w].pc = "mark_success"
  /\ reqs[1].kind = "status" /\ IsSome(reqs[1].resp[1].body[1].download_url)

\* in this step invocation w finishes with its record: it goes on to the
\* next record, returns, or raises
FinishesRecord(w) ==
  /\ workers[w].pc \in {"mark_success", "mark_failed"}
  /\ workers'[w].pc \in {"mark_in_progress", "returned", "raised"}
Terminal == {"SUCCESS", "FAILED"}

\* C30: when an invocation finishes with a record, the job's stored status
\* is SUCCESS or FAILED, also when the job store fails during a status
\* write.
C30_FinishedMeansTerminal ==
  [][\A w \in Workers :
       FinishesRecord(w) =>
         store'[Record(w).job_id].status \in Terminal]_vars

\* C30, amended: when an invocation finishes with a record, either its last
\* status write went through and the job's stored status is the one it
\* wrote, SUCCESS or FAILED, or the FAILED write raised: then the store is
\* as it was and the invocation ends by raising that exception.
C30_FinishedMeansTerminalOrStoreFailed ==
  [][\A w \in Workers :
       FinishesRecord(w) =>
         LET j == Record(w).job_id
         IN  \/ /\ workers[w].pc = "mark_success"
                /\ workers'[w].pc # "raised"
                /\ store'[j].status = "SUCCESS"
             \/ /\ workers[w].pc = "mark_failed"
                /\ workers'[w].pc = "raised"
                /\ workers'[w].wrote_failed
                /\ store'[j].status = "FAILED"
             \/ /\ workers[w].pc = "mark_failed"
                /\ workers'[w].pc = "raised"
                /\ ~workers'[w].wrote_failed
                /\ workers'[w].exc = Some(Raised("mark_failed"))
                /\ store' = store]_vars

\* one invocation ended by the exception of its FAILED write, another one
\* returned, and the record reads SUCCESS
C30_Witness ==
  /\ \E w \in Workers :
       workers[w].pc = "raised" /\ workers[w].exc = Some(Raised("mark_failed"))
  /\ \E w \in Workers : workers[w].pc = "returned"
  /\ store[1].status = "SUCCESS"

\* an invocation ended by the exception of its FAILED write and the record
\* reads IN_PROGRESS
C30_LeftInProgress ==
  /\ \A w \in Workers : workers[w].pc \in {"idle", "raised"}
  /\ \E w \in Workers :
       workers[w].pc = "raised" /\ workers[w].exc = Some(Raised("mark_failed"))
  /\ store[1].status = "IN_PROGRESS"

\* the status, row_count and error of the records that one invocation, run
\* alone on the submitted job, can leave
AloneOutcomes ==
  { [status |-> "SUCCESS", row_count |-> Some(Len(db)), error |-> None],
    [status |-> "PENDING", row_count |-> None, error |-> None],
    [status |-> "IN_PROGRESS", row_count |-> None, error |-> None] }
  \cup { [status |-> "FAILED", row_count |-> None,
          error |-> Some(ErrorText(RaisedWith("execute", n)))] : n \in MessageLengths }
OutcomeOf(j) ==
  [status |-> store[j].status, row_count |-> store[j].row_count,
   error |-> store[j].error]

\* C31: once two invocations that worked on the same job's message have both
\* finished, the job's record has the status, row_count and error that one
\* of them would have left when run alone.
C31_ConcurrentRunsLeaveOneRunsRecord ==
  ( /\ Cardinality({w \in Workers : Finished(w)}) >= 2
    /\ \A w \in Workers : workers[w].pc = "idle" \/ Finished(w) )
    => OutcomeOf(1) \in AloneOutcomes

\* the same for a single invocation: what it leaves is one of AloneOutcomes
C31_OneRunLeavesAloneOutcome ==
  ( /\ Cardinality({w \in Workers : Finished(w)}) = 1
    /\ \A w \in Workers : workers[w].pc = "idle" \/ Finished(w) )
    => OutcomeOf(1) \in AloneOutcomes

\* the statements that start with SELECT and hold no mutating keyword as a
\* word, among those the model's answers give
ValidatedSqls == {sql \in AllSqls : StartsWithSelect(sql) /\ is_safe(sql)}

\* C33: every statement an invocation has passed to cur.execute is the
\* statement of a message in the queue, unchanged; every message in the
\* queue carries the statement of the export request that sent it, which
\* starts with SELECT and holds no mutating keyword as a word.
C33_WorkerRunsOnlyValidatedSql ==
  /\ \A m \in queue :
       /\ m.sql \in ValidatedSqls
       /\ \E r \in Requests :
            /\ reqs[r].kind = "export"
            /\ reqs[r].job_id = Some(m.job_id)
            /\ reqs[r].sql = Some(m.sql)
  /\ \A w \in Workers : \A i \in 1..Len(workers[w].executed) :
       /\ \E m \in queue : m.sql = workers[w].executed[i]
       /\ workers[w].executed[i] \in ValidatedSqls

\* the request was answered, and an invocation has run the statement that
\* was extracted from the model's tagged answer
C33_Witness ==
  /\ reqs[1].kind = "export" /\ reqs[1].pc = "done"
  /\ reqs[1].content # reqs[1].sql
  /\ \E w \in Workers :
       /\ workers[w].pc = "returned"
       /\ workers[w].executed = <<reqs[1].sql[1]>>

\* the job of the i-th record of the event of invocation 1
BatchJob(i) == workers[1].records[i].job_id
\* no status write, no statement run, no file and no object for the job
Untouched(j) ==
  /\ store[j] = NewJob(S3Key(j), 0)
  /\ s3[j] = None
  /\ disk[1][j] = None
  /\ \A i \in 1..Len(workers[1].executed) : workers[1].executed[i] # JobSql(j)
EarlierSucceeded ==
  \A i \in 1..(workers[1].idx - 1) :
    /\ store[BatchJob(i)].status = "SUCCESS"
    /\ ObjectComplete(BatchJob(i))
LaterUntouched ==
  \A i \in (workers[1].idx + 1)..Len(workers[1].records) : Untouched(BatchJob(i))

\* C34: when the processing of a record of an event raises, the handler
\* stops there: the earlier records of the event are SUCCESS, the failing
\* record is FAILED, the later records are untouched.
C34_StopsAtFailingRecord ==
  workers[1].pc = "raised" =>
    /\ EarlierSucceeded
    /\ store[BatchJob(workers[1].idx)].status = "FAILED"
    /\ LaterUntouched

\* C34, amended: when the processing of a record of an event raises, the
\* handler stops there: the earlier records are SUCCESS with their objects
\* uploaded, the later records are untouched, and the failing record is
\* FAILED when the FAILED write went through; when that write raised, the
\* failing record is PENDING or IN_PROGRESS and the handler ends with the
\* write's exception. At every moment the records behind the current one
\* are untouched.
C34_StopsAtFailingRecordOrStoreFailed ==
  /\ workers[1].pc # "idle" => LaterUntouched
  /\ workers[1].pc = "raised" =>
       /\ EarlierSucceeded
       /\ IF workers[1].wrote_failed
          THEN store[BatchJob(workers[1].idx)].status = "FAILED"
          ELSE /\ workers[1].exc = Some(Raised("mark_failed"))
               /\ store[BatchJob(workers[1].idx)].status \in {"PENDING", "IN_PROGRESS"}

\* an event of all messages whose second record failed: the first job is
\* SUCCESS, the second FAILED
C34_Witness ==
  /\ workers[1].pc = "raised"
  /\ Len(workers[1].records) = NumJobs
  /\ workers[1].idx = 2
  /\ store[BatchJob(1)].status = "SUCCESS"
  /\ store[BatchJob(2)].status = "FAILED"
(***************************************************************************)
(* Claims about the streaming executor.                                    *)
(***************************************************************************)
StreamText == Concat(stream.out)
StreamEnded == stream.pc = "ended" /\ stream.conn # "none"
StreamCompleted == StreamEnded /\ stream.exc = None
ValidPage == stream.page >= 1 /\ stream.page_size >= 1
IsSeparator(fragment) == fragment = <<Tok(",")>>
IsRowFragment(fragment) == Head(fragment) = Tok("[")

\* C6: for page >= 1, page_size >= 1, every chunk_size and every table, a
\* stream that the database does not fail and the consumer does not abandon
\* delivers the document that the paginated response builds from run_page:
\* the same columns, rows in the same order and pagination values.
C6_StreamedEqualsPaged ==
  ( /\ StreamEnded /\ ValidPage
    /\ stream.exc \notin {Some("OperationalError"), Some("GeneratorExit")} )
    => /\ Loads(StreamText).ok
       /\ Loads(StreamText).val =
            QueryDocument(StreamSql,
                          run_page(db, stream.page, stream.page_size),
                          stream.page, stream.page_size)

\* C7: the fragments of a stream that ran to completion, concatenated in
\* order, are one well-formed document with the keys sql, columns, rows and
\* pagination; rows holds one element per row of the page; a separator
\* fragment stands between two row fragments and nowhere else, one less than
\* there are rows; an empty table gives rows [], total_rows 0, total_pages 0.
C7_CompleteStreamIsOneDocument ==
  StreamCompleted =>
    LET doc == Loads(StreamText)
        out == stream.out
        page_rows == PageRows(db, stream.page, stream.page_size)
    IN  /\ doc.ok
        /\ doc.val.k = "obj"
        /\ doc.val.keys = <<"sql", "columns", "rows", "pagination">>
        /\ Member(doc.val, "rows").k = "arr"
        /\ Len(Member(doc.val, "rows").items) = Len(page_rows)
        /\ \A i \in 1..Len(page_rows) :
             Member(doc.val, "rows").items[i] = EncodeRow(page_rows[i])
        /\ \A i \in 1..Len(out) :
             IsSeparator(out[i])
               => /\ 1 < i /\ i < Len(out)
                  /\ IsRowFragment(out[i - 1]) /\ IsRowFragment(out[i + 1])
        /\ \A i \in 1..(Len(out) - 1) :
             IsRowFragment(out[i]) /\ IsRowFragment(out[i + 1]) => FALSE
        /\ Cardinality({i \in 1..Len(out) : IsSeparator(out[i])})
             = Max(0, Len(page_rows) - 1)
        /\ Len(db) = 0
             => /\ Member(doc.val, "rows") = JArr(<<>>)
                /\ Member(Member(doc.val, "pagination"), "total_rows") = JNum(0)
                /\ Member(Member(doc.val, "pagination"), "total_pages") = JNum(0)

\* three rows fetched as a batch of two and a batch of one
C7_Witness ==
  /\ StreamCompleted
  /\ stream.rows_count = 3 /\ stream.chunk_size = 2
  /\ Loads(StreamText).ok

CeilDiv(total, page_size) ==
  CHOOSE k \in 0..total :
    /\ k * page_size >= total
    /\ k = 0 \/ (k - 1) * page_size < total

\* C12: for page_size >= 1 the total_pages of the streamed document, and the
\* total_pages the paginated response computes for the same total and
\* page_size, are ceil(total_rows / page_size): 0 for no rows, no extra page
\* for an exact multiple.
C12_TotalPagesIsCeiling ==
  (StreamCompleted /\ stream.page_size >= 1) =>
    LET total == Len(db)
        streamed == Member(Loads(StreamText).val, "pagination")
        paged == Pagination(stream.page, stream.page_size, run_page(db, stream.page, stream.page_size).total)
    IN  /\ Member(streamed, "total_rows") = JNum(total)
        /\ Member(streamed, "total_pages") = JNum(CeilDiv(total, stream.page_size))
        /\ paged.total_rows = total
        /\ paged.total_pages = CeilDiv(total, stream.page_size)
        /\ total = 0 => paged.total_pages = 0
        /\ (total > 0 /\ total % stream.page_size = 0)
             => paged.total_pages * stream.page_size = total

\* several pages, the last one full
C12_Witness ==
  /\ StreamCompleted
  /\ stream.page_size >= 1
  /\ Len(db) > stream.page_size /\ Len(db) % stream.page_size = 0
  /\ Member(Member(Loads(StreamText).val, "pagination"), "total_pages")
       = JNum(Len(db) \div stream.page_size)

\* the pages 1..k of rows, one after the other
RECURSIVE PagesUpTo(_, _, _)
PagesUpTo(rows, k, page_size) ==
  IF k = 0 THEN <<>>
  ELSE PagesUpTo(rows, k - 1, page_size) \o run_page(rows, k, page_size).rows

\* C13: for page >= 1 and page_size >= 1 the stream executes one page query
\* and no second one, with LIMIT page_size and OFFSET (page - 1) * page_size;
\* run_page returns the rows of that same query; and the pages 1, 2, ... of a
\* result, put one after the other, are the result: no row twice, none left
\* out, nothing after the last page.
C13_OnePageQueryPerCall ==
  /\ PageQuery(2, 50) = [limit |-> 50, offset |-> 50]
  /\ (ValidPage /\ stream.pc # "none") =>
       /\ Len(stream.executed) <= 1
       /\ stream.pc \notin {"connect", "cursor", "execute"} /\ stream.cur # "none"
            => stream.executed =
                 << [limit |-> stream.page_size,
                     offset |-> (stream.page - 1) * stream.page_size] >>
       /\ stream.pc = "count"
            => stream.result = run_page(db, stream.page, stream.page_size).rows
       /\ PagesUpTo(db, CeilDiv(Len(db), stream.page_size), stream.page_size) = db
       /\ run_page(db, CeilDiv(Len(db), stream.page_size) + 1, stream.page_size).rows
            = <<>>

\* the second page of a result of more than one page has been streamed
C13_Witness ==
  /\ StreamCompleted
  /\ stream.page = 2 /\ stream.page_size >= 1
  /\ stream.rows_count >= 1
  /\ Len(stream.executed) = 1


IsHeaderFragment(fragment) == Head(fragment) = Tok("{")
IsPaginationFragment(fragment) ==
  Head(fragment) \in {Tok("]"), TStr("page"), TStr("total_pages"), Tok("}")}

\* C24: the count has been made once, and before the first fragment; every
\* row fragment comes before every pagination fragment; a completed stream
\* ends with the four pagination fragments; a stream whose page query or
\* count query failed has emitted nothing.
C24_CountFirstPaginationLast ==
  LET out == stream.out
      n == Len(out)
  IN  /\ stream.counts <= 1
      /\ n > 0 => /\ stream.counts = 1
                  /\ IsSome(stream.total)
                  /\ IsHeaderFragment(out[1])
      /\ \A i \in 1..n : \A j \in (i + 1)..n :
           IsPaginationFragment(out[i])
             => ~IsRowFragment(out[j]) /\ ~IsSeparator(out[j])
      /\ StreamCompleted
           => /\ n >= 5
              /\ Head(out[n - 3]) = Tok("]")
              /\ Head(out[n - 2]) = TStr("page")
              /\ Head(out[n - 1]) = TStr("total_pages")
              /\ out[n] = <<Tok("}"), Tok("}")>>
              /\ \A i \in 1..(n - 4) : ~IsPaginationFragment(out[i])
      /\ (stream.exc = Some("OperationalError") /\ stream.total = None)
           => n = 0

\* a completed stream of a header, two rows with their separator and the
\* four pagination fragments
C24_Witness ==
  /\ StreamCompleted
  /\ stream.counts = 1
  /\ stream.rows_count = 2
  /\ Len(stream.out) = 8

\* the count query failed and nothing was emitted
C24_FailedCountWitness ==
  /\ stream.pc = "ended"
  /\ stream.exc = Some("OperationalError")
  /\ stream.counts = 1 /\ stream.total = None
  /\ stream.out = <<>>

\* C25: the rows fetched from the cursor and not yet handed to the consumer
\* are never more than chunk_size, whatever page_size is; the producer is at
\* the fetch only when none is left, and every row of the page is either
\* handed over, fetched, or still in the cursor.
C25_AtMostOneBatchAhead ==
  /\ Len(stream.batch) <= stream.chunk_size
  /\ stream.pc = "fetch" => stream.batch = <<>>
  /\ (stream.pc \in {"fetch", "separator", "row"} /\ ~PageQueryInvalid(stream.page, stream.page_size))
       => stream.rows_count + Len(stream.batch) + Len(stream.result)
            = Len(PageRows(db, stream.page, stream.page_size))

\* a page of three rows fetched two at a time: one row handed over, one
\* fetched and waiting, one still in the cursor
C25_Witness ==
  /\ stream.page_size = 3 /\ stream.chunk_size = 2
  /\ stream.mode = "suspended"
  /\ stream.rows_count = 1
  /\ Len(stream.batch) = 1
  /\ Len(stream.result) = 1

\* the fragments of the first k rows of a page, separators included
RECURSIVE RowFragments(_, _)
RowFragments(rows, k) ==
  IF k = 0 THEN <<>>
  ELSE RowFragments(rows, k - 1)
         \o (IF k > 1 THEN << <<Tok(",")>> >> ELSE <<>>)
         \o << DumpsRow(rows[k]) >>

\* a fetch raised after the header had been handed over
FetchFailedMidStream ==
  stream.exc = Some("OperationalError") /\ stream.out # <<>>

\* C26: when a batch fetch raises after fragments were emitted, the output
\* is and stays the header and the rows handed over so far: no pagination
\* fragment is in it and it is not a well-formed document; the generator
\* ends with that exception. After any exception no fragment is emitted.
C26_FailedFetchEndsTheStream ==
  /\ [](FetchFailedMidStream =>
          /\ stream.out =
               <<HeaderFragment(StreamSql, Columns)>>
                 \o RowFragments(PageRows(db, stream.page, stream.page_size),
                                 stream.rows_count)
          /\ \A i \in 1..Len(stream.out) : ~IsPaginationFragment(stream.out[i])
          /\ ~Loads(StreamText).ok
          /\ stream.pc \in {"finally", "ended"})
  /\ [][IsSome(stream.exc) =>
          /\ stream'.out = stream.out
          /\ stream'.exc = stream.exc
          /\ stream'.pc = "ended"]_vars

\* the second fetch failed after the header, two rows and their separator;
\* the generator has ended with the exception
C26_Witness ==
  /\ FetchFailedMidStream
  /\ stream.pc = "ended"
  /\ stream.rows_count = 2 /\ stream.chunk_size = 2
  /\ Len(stream.out) = 4

\* C27: a generator that was called ends, whatever the table and whatever
\* the consumer and the database do; one that ran to completion has taken
\* every row of the page, has stopped at the first empty batch (one fetch per
\* full or partial batch and one that came back empty) and has emitted the
\* closing fragment; no fetch follows an empty batch; a generator that has
\* ended does nothing more.
C27_StreamTerminates ==
  /\ (stream.pc # "none") ~> (stream.pc = "ended")
  /\ [](StreamCompleted =>
          LET n == Len(PageRows(db, stream.page, stream.page_size))
          IN  /\ stream.exhausted
              /\ stream.rows_count = n
              /\ stream.fetches = (n + stream.chunk_size - 1) \div stream.chunk_size + 1
              /\ stream.out[Len(stream.out)] = <<Tok("}"), Tok("}")>>)
  /\ [][stream.exhausted => stream'.fetches = stream.fetches]_vars
  /\ [][stream.pc = "ended" => stream' = stream]_vars

\* a page of two rows fetched two at a time: the second fetch came back
\* empty and the stream completed
C27_Witness ==
  /\ StreamCompleted
  /\ stream.chunk_size = 2 /\ stream.rows_count = 2
  /\ stream.fetches = 2 /\ stream.exhausted
====
